---- MODULE Spec2Model ----
(***************************************************************************)
(* A model of berm, a policy-as-code evaluator for Terraform plans.        *)
(*                                                                         *)
(* Python values are tagged tuples: <<"none">>, <<"bool", b>>,             *)
(* <<"int", n>>, <<"str", chars>>, <<"list", elems>>, <<"dict", pairs>>.   *)
(* A Python str is a sequence of pieces whose concatenation is the string. *)
(* Text the program inspects (paths, addresses, numbers, patterns) is      *)
(* written one character per piece, so that split, substring tests, int()  *)
(* and float() are computed on characters; the fixed text of a message     *)
(* literal is written as one piece. A dict is the sequence of its          *)
(* <<key, value>> pairs in insertion order, keys unique.                   *)
(***************************************************************************)
EXTENDS Integers, Sequences, FiniteSets, TLC

VARIABLES
    op,          \* the call that produced the outputs: "init" before any call
    rules,       \* input: the list of Rule objects of the call
    resources,   \* input: the normalized resource list
    plan_data,   \* input: the plan JSON handed to the cross-resource evaluator
    obj,         \* input: root value of get_nested_property
    path,        \* input: path string of get_nested_property
    violations,  \* output: the violation list the call returned
    result,      \* output: the value get_nested_property returned
    raised,      \* output: the exception the call raised, "none" when it returned
    rule_files,  \* input: the *.json files found under the rules directory
    strict,      \* input: the --strict flag of a check run
    references,  \* the reference map the latest cross-resource call built
    constants,   \* the constant map the latest cross-resource call built
    calls        \* the number of calls the evaluator instances have received

vars == <<op, rules, resources, plan_data, obj, path, violations, result, raised,
          rule_files, strict, references, constants, calls>>

(***************************************************************************)
(* Python values                                                           *)
(***************************************************************************)
None == <<"none">>
PyBool(b) == <<"bool", b>>
PyInt(n) == <<"int", n>>
PyStr(s) == <<"str", s>>
PyList(xs) == <<"list", xs>>
PyDict(kvs) == <<"dict", kvs>>

Tag(v) == v[1]
Val(v) == v[2]

IsNone(v) == Tag(v) = "none"
IsBool(v) == Tag(v) = "bool"
\* isinstance(v, (int, float)): bool is a subclass of int
IsNumber(v) == Tag(v) \in {"bool", "int"}
IsStr(v) == Tag(v) = "str"
IsList(v) == Tag(v) = "list"
IsDict(v) == Tag(v) = "dict"

\* the numeric value of an int or a bool (True == 1, False == 0)
NumOf(v) == IF IsBool(v) THEN (IF Val(v) THEN 1 ELSE 0) ELSE Val(v)

\* Python ==: numbers compare by value across bool and int, everything else
\* by type and content
PyEq(a, b) ==
    IF IsNumber(a) /\ IsNumber(b) THEN NumOf(a) = NumOf(b) ELSE a = b

\* Python truthiness: bool(v)
Truthy(v) ==
    CASE IsNone(v) -> FALSE
      [] IsBool(v) -> Val(v)
      [] Tag(v) = "int" -> Val(v) # 0
      [] OTHER -> Len(Val(v)) > 0

\* dict.get(key): the value stored under key, None when there is none
DictHas(d, key) == \E i \in 1..Len(Val(d)) : Val(d)[i][1] = key
DictGet(d, key) ==
    IF DictHas(d, key)
    THEN Val(d)[CHOOSE i \in 1..Len(Val(d)) : Val(d)[i][1] = key][2]
    ELSE None

(***************************************************************************)
(* Python str operations on character sequences                            *)
(***************************************************************************)
Digits == <<"0", "1", "2", "3", "4", "5", "6", "7", "8", "9">>
IsDigit(c) == \E i \in 1..10 : Digits[i] = c
DigitVal(c) == (CHOOSE i \in 1..10 : Digits[i] = c) - 1

\* s.split(sep) for a one-character separator: always at least one part,
\* the text between consecutive separators
Split(s, sep) ==
    LET seps == {i \in 1..Len(s) : s[i] = sep}
        n == Cardinality(seps)
        Pos(k) == IF k = 0 THEN 0
                  ELSE IF k = n + 1 THEN Len(s) + 1
                  ELSE CHOOSE i \in seps : Cardinality({j \in seps : j < i}) = k - 1
    IN [k \in 1..(n + 1) |-> SubSeq(s, Pos(k - 1) + 1, Pos(k) - 1)]

\* needle in hay, for two strings
Contains(hay, needle) ==
    \E i \in 0..(Len(hay) - Len(needle)) :
        SubSeq(hay, i + 1, i + Len(needle)) = needle

RECURSIVE DigitsValue(_, _)
DigitsValue(s, acc) ==
    IF s = << >> THEN acc ELSE DigitsValue(Tail(s), 10 * acc + DigitVal(Head(s)))

AllDigits(s) == s # << >> /\ \A i \in 1..Len(s) : IsDigit(s[i])

\* int(s): [ok |-> TRUE, v |-> n] for an optional sign followed by decimal
\* digits, [ok |-> FALSE] (ValueError) otherwise. Surrounding whitespace and
\* digit-group underscores, which int() also accepts, are outside the alphabet.
PyIntParse(s) ==
    IF s # << >> /\ Head(s) \in {"-", "+"} /\ AllDigits(Tail(s))
    THEN [ok |-> TRUE,
          v |-> IF Head(s) = "-" THEN 0 - DigitsValue(Tail(s), 0)
                ELSE DigitsValue(Tail(s), 0)]
    ELSE IF AllDigits(s) THEN [ok |-> TRUE, v |-> DigitsValue(s, 0)]
    ELSE [ok |-> FALSE, v |-> 0]

\* str.lower() on the letters of the alphabet
UpperCase == <<"A", "B", "C", "D", "E", "F", "G", "H", "I", "J", "K", "L", "M",
               "N", "O", "P", "Q", "R", "S", "T", "U", "V", "W", "X", "Y", "Z">>
LowerCase == <<"a", "b", "c", "d", "e", "f", "g", "h", "i", "j", "k", "l", "m",
               "n", "o", "p", "q", "r", "s", "t", "u", "v", "w", "x", "y", "z">>
LowerChar(c) ==
    IF \E i \in 1..26 : UpperCase[i] = c
    THEN LowerCase[CHOOSE i \in 1..26 : UpperCase[i] = c]
    ELSE c
Lower(s) == [i \in 1..Len(s) |-> LowerChar(s[i])]

\* s.replace(old, new) where old is one piece
Replace(s, old, new) ==
    LET RECURSIVE Go(_)
        Go(t) == IF t = << >> THEN << >>
                 ELSE IF Head(t) = old THEN new \o Go(Tail(t))
                 ELSE <<Head(t)>> \o Go(Tail(t))
    IN Go(s)

\* str(n) for an int
RECURSIVE NatToStr(_)
NatToStr(n) ==
    IF n < 10 THEN <<Digits[n + 1]>>
    ELSE Append(NatToStr(n \div 10), Digits[(n % 10) + 1])
IntToStr(n) == IF n < 0 THEN <<"-">> \o NatToStr(0 - n) ELSE NatToStr(n)

\* repr(v) and str(v); a str is quoted with ' by repr (no escapes arise in the
\* alphabet)
RECURSIVE PyRepr(_)
PyRepr(v) ==
    LET RECURSIVE Items(_, _)
        Items(xs, isDict) ==
            IF xs = << >> THEN << >>
            ELSE (IF isDict
                  THEN PyRepr(PyStr(Head(xs)[1])) \o <<":", " ">> \o PyRepr(Head(xs)[2])
                  ELSE PyRepr(Head(xs)))
                 \o (IF Len(xs) > 1 THEN <<",", " ">> ELSE << >>)
                 \o Items(Tail(xs), isDict)
    IN
    CASE IsNone(v) -> <<"N", "o", "n", "e">>
      [] IsBool(v) -> IF Val(v) THEN <<"T", "r", "u", "e">>
                      ELSE <<"F", "a", "l", "s", "e">>
      [] Tag(v) = "int" -> IntToStr(Val(v))
      [] IsStr(v) -> <<"'">> \o Val(v) \o <<"'">>
      [] IsList(v) -> <<"[">> \o Items(Val(v), FALSE) \o <<"]">>
      [] IsDict(v) -> <<"{">> \o Items(Val(v), TRUE) \o <<"}">>
PyStrOf(v) == IF IsStr(v) THEN Val(v) ELSE PyRepr(v)

\* float(v) as the fraction num / 10^scale: [ok |-> TRUE, num, scale], or
\* [ok |-> FALSE] where float raises ValueError or TypeError. A str parses as
\* an optional sign, digits, and an optional "." with more digits; exponents,
\* "inf", "nan" and surrounding whitespace are outside the alphabet.
NoFloat == [ok |-> FALSE, num |-> 0, scale |-> 0]
FloatOfStr(s) ==
    LET signed == s # << >> /\ Head(s) \in {"-", "+"}
        body == IF signed THEN Tail(s) ELSE s
        parts == Split(body, ".")
        sign == IF signed /\ Head(s) = "-" THEN 0 - 1 ELSE 1 IN
    IF Len(parts) = 1 /\ AllDigits(parts[1])
    THEN [ok |-> TRUE, num |-> sign * DigitsValue(parts[1], 0), scale |-> 0]
    ELSE IF /\ Len(parts) = 2
            /\ parts[1] \o parts[2] # << >>
            /\ \A i \in 1..Len(parts[1] \o parts[2]) : IsDigit((parts[1] \o parts[2])[i])
         THEN [ok |-> TRUE, num |-> sign * DigitsValue(parts[1] \o parts[2], 0),
               scale |-> Len(parts[2])]
    ELSE NoFloat
PyFloat(v) ==
    CASE IsNumber(v) -> [ok |-> TRUE, num |-> NumOf(v), scale |-> 0]
      [] IsStr(v) -> FloatOfStr(Val(v))
      [] OTHER -> NoFloat

RECURSIVE Pow10(_)
Pow10(k) == IF k = 0 THEN 1 ELSE 10 * Pow10(k - 1)
\* the sign of a - b for two floats: -1, 0 or 1
FloatCmp(a, b) ==
    LET x == a.num * Pow10(b.scale)
        y == b.num * Pow10(a.scale) IN
    IF x < y THEN 0 - 1 ELSE IF x = y THEN 0 ELSE 1

\* the digits of _sre.MAXREPEAT, 4294967295
MaxRepeatDigits == <<"4", "2", "9", "4", "9", "6", "7", "2", "9", "5">>

\* int(digits) >= int(bound), on digit strings of any length
DigitsAtLeast(digits, bound) ==
    LET zeros == {i \in 0..Len(digits) : \A j \in 1..i : digits[j] = "0"}
        lead == CHOOSE i \in zeros : \A j \in zeros : j <= i
        d == SubSeq(digits, lead + 1, Len(digits))
        differ == {i \in 1..Len(bound) : Len(d) = Len(bound) /\ d[i] # bound[i]} IN
    \/ Len(d) > Len(bound)
    \/ /\ Len(d) = Len(bound)
       /\ \/ differ = {}
          \/ LET first == CHOOSE i \in differ : \A j \in differ : i <= j IN
             DigitVal(d[first]) > DigitVal(bound[first])

\* re.compile(pattern) raises OverflowError ("the repetition number is too
\* large"): a repeat count "{n}" with n >= MAXREPEAT
RegexRepeatOverflows(pattern) ==
    \E i \in 2..Len(pattern) : \E j \in (i + 2)..Len(pattern) :
        /\ pattern[i] = "{"
        /\ pattern[j] = "}"
        /\ \A k \in (i + 1)..(j - 1) : IsDigit(pattern[k])
        /\ DigitsAtLeast(SubSeq(pattern, i + 1, j - 1), MaxRepeatDigits)

\* re.compile(pattern).search(text) for patterns made of literal characters
\* with an optional leading "^" and trailing "$"; a pattern holding an
\* unbalanced "(" does not compile (re.error), nor does one whose repeat
\* count overflows (OverflowError)
RegexCompiles(pattern) ==
    /\ ~ (\E i \in 1..Len(pattern) : pattern[i] = "(")
    /\ ~RegexRepeatOverflows(pattern)
RegexSearch(pattern, text) ==
    LET atStart == pattern # << >> /\ Head(pattern) = "^"
        p1 == IF atStart THEN Tail(pattern) ELSE pattern
        atEnd == p1 # << >> /\ p1[Len(p1)] = "$"
        lit == IF atEnd THEN SubSeq(p1, 1, Len(p1) - 1) ELSE p1 IN
    \E i \in 0..(Len(text) - Len(lit)) :
        /\ SubSeq(text, i + 1, i + Len(lit)) = lit
        /\ atStart => i = 0
        /\ atEnd => i + Len(lit) = Len(text)

(***************************************************************************)
(* berm.security                                                           *)
(***************************************************************************)
MAX_PROPERTY_DEPTH == 20
MAX_ARRAY_INDEX == 100
MAX_PROPERTY_PATH_LENGTH == 1000

\* "\x00", "\n", "\r": the characters validate_property_path rejects (the
\* character NUL is written "NUL")
PathControlChars == {"NUL", "\n", "\r"}

\* validate_property_path(path): TRUE when it returns, FALSE when it raises
\* ValueError or SecurityError
validate_property_path(p) ==
    /\ p # << >>
    /\ Len(p) <= MAX_PROPERTY_PATH_LENGTH
    /\ Len(Split(p, ".")) <= MAX_PROPERTY_DEPTH
    /\ \A i \in 1..Len(Split(p, ".")) :
          /\ Split(p, ".")[i] # << >>
          /\ \A j \in 1..Len(Split(p, ".")[i]) :
                Split(p, ".")[i][j] \notin PathControlChars

\* chr(0)..chr(31) without tab, and DEL, under the names the alphabet gives
\* them; tab ("\t") and space are kept
OutputControlChars == {"NUL", "BEL", "\n", "\r", "ESC", "DEL"}
MAX_OUTPUT_LENGTH == 10000

\* re.sub(r'\x1b\[[0-9;]*m', '', text)
RECURSIVE RemoveAnsi(_)
RemoveAnsi(text) ==
    LET RECURSIVE ParamEnd(_)
        \* the first position at or after i that holds no digit and no ";"
        ParamEnd(i) ==
            IF i <= Len(text) /\ (IsDigit(text[i]) \/ text[i] = ";")
            THEN ParamEnd(i + 1) ELSE i
    IN
    IF text = << >> THEN << >>
    ELSE IF /\ Len(text) >= 3
            /\ text[1] = "ESC"
            /\ text[2] = "["
            /\ ParamEnd(3) <= Len(text)
            /\ text[ParamEnd(3)] = "m"
         THEN RemoveAnsi(SubSeq(text, ParamEnd(3) + 1, Len(text)))
    ELSE <<Head(text)>> \o RemoveAnsi(Tail(text))

\* text.replace("::", ":\u200b:"): left to right, without overlap
RECURSIVE BreakDoubleColon(_)
BreakDoubleColon(text) ==
    IF Len(text) >= 2 /\ text[1] = ":" /\ text[2] = ":"
    THEN <<":", "ZWSP", ":">> \o BreakDoubleColon(SubSeq(text, 3, Len(text)))
    ELSE IF text = << >> THEN << >>
    ELSE <<Head(text)>> \o BreakDoubleColon(Tail(text))

sanitize_for_output(text, context) ==
    IF text = << >> THEN text
    ELSE LET noAnsi == RemoveAnsi(text)
             noCtl == SelectSeq(noAnsi, LAMBDA c : c \notin OutputControlChars)
             ctx == IF context = "github" THEN BreakDoubleColon(noCtl) ELSE noCtl
         IN IF Len(ctx) > MAX_OUTPUT_LENGTH
            THEN SubSeq(ctx, 1, MAX_OUTPUT_LENGTH) \o <<"... (truncated)">>
            ELSE ctx

(***************************************************************************)
(* berm.loaders.terraform: get_nested_property                             *)
(***************************************************************************)
\* one list step of the traversal: the element, or None
ListStepNegativeIndexing(current, part) ==
    LET idx == PyIntParse(part)
        n == Len(Val(current)) IN
    IF ~idx.ok THEN [found |-> FALSE, v |-> None]
    ELSE IF idx.v >= MAX_ARRAY_INDEX THEN [found |-> FALSE, v |-> None]
    ELSE IF idx.v < 0 /\ 0 - idx.v <= n
         THEN [found |-> TRUE, v |-> Val(current)[n + idx.v + 1]]
    ELSE IF idx.v >= 0 /\ idx.v < n
         THEN [found |-> TRUE, v |-> Val(current)[idx.v + 1]]
    ELSE [found |-> FALSE, v |-> None]

ListStepNoIndexCap(current, part) ==
    LET idx == PyIntParse(part) IN
    IF ~idx.ok THEN [found |-> FALSE, v |-> None]
    ELSE IF idx.v < 0 THEN [found |-> FALSE, v |-> None]
    ELSE IF idx.v < Len(Val(current))
         THEN [found |-> TRUE, v |-> Val(current)[idx.v + 1]]
    ELSE [found |-> FALSE, v |-> None]

\* the isinstance(current, list) branch: found is FALSE where the code
\* returns None out of the loop
ListStep(current, part) ==
    LET idx == PyIntParse(part) IN
    IF ~idx.ok THEN [found |-> FALSE, v |-> None]          \* except ValueError
    ELSE IF idx.v < 0 \/ idx.v >= MAX_ARRAY_INDEX THEN [found |-> FALSE, v |-> None]
    ELSE IF idx.v < Len(Val(current))
         THEN [found |-> TRUE, v |-> Val(current)[idx.v + 1]]
    ELSE [found |-> FALSE, v |-> None]

\* the for loop over parts
RECURSIVE Traverse(_, _)
Traverse(parts, current) ==
    IF parts = << >> THEN current
    ELSE IF IsNone(current) THEN None
    ELSE IF IsList(current)
         THEN LET step == ListStep(current, Head(parts)) IN
              IF step.found THEN Traverse(Tail(parts), step.v) ELSE None
    ELSE IF IsDict(current)
         THEN Traverse(Tail(parts), DictGet(current, Head(parts)))
    ELSE None

get_nested_property(o, p) ==
    IF ~Truthy(o) \/ p = << >> THEN None
    ELSE IF ~validate_property_path(p) THEN None
    ELSE Traverse(Split(p, "."), o)

\* "sep".join(parts)
RECURSIVE Join(_, _)
Join(parts, sep) ==
    IF parts = << >> THEN << >>
    ELSE IF Len(parts) = 1 THEN parts[1]
    ELSE parts[1] \o <<sep>> \o Join(Tail(parts), sep)

\* d.get(key, default)
DictGetOr(d, key, default) == IF DictHas(d, key) THEN DictGet(d, key) ELSE default

(***************************************************************************)
(* berm.loaders.terraform: the reference and constant maps                 *)
(*                                                                         *)
(* A map from addresses is the sequence of its <<address, entry>> pairs in *)
(* insertion order.                                                        *)
(***************************************************************************)
MapHas(m, key) == \E i \in 1..Len(m) : m[i][1] = key
MapGet(m, key) == m[CHOOSE i \in 1..Len(m) : m[i][1] = key][2]
\* m[key] = entry
MapSet(m, key, entry) ==
    IF MapHas(m, key)
    THEN [i \in 1..Len(m) |-> IF m[i][1] = key THEN <<key, entry>> ELSE m[i]]
    ELSE Append(m, <<key, entry>>)

ModuleWord == <<"m", "o", "d", "u", "l", "e">>

_extract_address_from_reference(reference) ==
    LET parts == Split(reference, ".") IN
    IF reference = << >> THEN << >>
    ELSE IF Len(parts) < 2 THEN << >>
    ELSE IF parts[1] = ModuleWord
         THEN (IF Len(parts) >= 4 THEN Join(SubSeq(parts, 1, 4), ".") ELSE reference)
    ELSE Join(SubSeq(parts, 1, 2), ".")

\* the inner loop over value["references"]: one edge target -> dependent per
\* reference that is a str with a non-empty base address, without duplicates
RECURSIVE AddReferences(_, _, _)
AddReferences(refs, dependent_address, reference_map) ==
    IF refs = << >> THEN reference_map
    ELSE LET ref == Head(refs)
             target == _extract_address_from_reference(Val(ref))
             deps == IF MapHas(reference_map, target)
                     THEN MapGet(reference_map, target) ELSE << >>
             added ==
                 IF IsStr(ref) /\ target # << >>
                 THEN MapSet(reference_map, target,
                             IF \E i \in 1..Len(deps) : deps[i] = dependent_address
                             THEN deps ELSE Append(deps, dependent_address))
                 ELSE reference_map
         IN AddReferences(Tail(refs), dependent_address, added)

\* a walk that leaves list-valued entries unread
IgnoreExpressionList(elems, dependent_address, reference_map) == reference_map

RECURSIVE _extract_references_from_expressions(_, _, _)
RECURSIVE ExpressionItems(_, _, _)
RECURSIVE ExpressionList(_, _, _)
\* the loop over expressions.items()
ExpressionItems(items, dependent_address, reference_map) ==
    IF items = << >> THEN reference_map
    ELSE LET value == Head(items)[2]
             here ==
                 IF IsDict(value)
                 THEN _extract_references_from_expressions(
                          value, dependent_address,
                          IF /\ DictHas(value, <<"references">>)
                             /\ IsList(DictGet(value, <<"references">>))
                          THEN AddReferences(Val(DictGet(value, <<"references">>)),
                                             dependent_address, reference_map)
                          ELSE reference_map)
                 ELSE IF IsList(value)
                 THEN ExpressionList(Val(value), dependent_address, reference_map)
                 ELSE reference_map
         IN ExpressionItems(Tail(items), dependent_address, here)
\* the loop over the items of a list-valued entry
ExpressionList(elems, dependent_address, reference_map) ==
    IF elems = << >> THEN reference_map
    ELSE ExpressionList(Tail(elems), dependent_address,
             IF IsDict(Head(elems))
             THEN _extract_references_from_expressions(
                      Head(elems), dependent_address, reference_map)
             ELSE reference_map)
\* returns the reference map that the code updates in place
_extract_references_from_expressions(expressions, dependent_address, reference_map) ==
    IF ~IsDict(expressions) THEN reference_map
    ELSE ExpressionItems(Val(expressions), dependent_address, reference_map)

\* plan_data["configuration"]["root_module"]["resources"] when each level has
\* the expected type, the empty list otherwise
ConfigResources(plan) ==
    LET config == DictGetOr(plan, <<"configuration">>, PyDict(<< >>))
        root_module == DictGetOr(config, <<"root_module">>, PyDict(<< >>))
        config_resources == DictGetOr(root_module, <<"resources">>, PyList(<< >>)) IN
    IF ~IsDict(config) THEN << >>
    ELSE IF ~IsDict(root_module) THEN << >>
    ELSE IF ~IsList(config_resources) THEN << >>
    ELSE Val(config_resources)

extract_resource_references(plan) ==
    LET RECURSIVE Each(_, _)
        Each(rs, reference_map) ==
            IF rs = << >> THEN reference_map
            ELSE LET resource == Head(rs)
                     dependent_address == DictGet(resource, <<"address">>)
                     expressions == DictGetOr(resource, <<"expressions">>, PyDict(<< >>))
                 IN Each(Tail(rs),
                         IF ~IsDict(resource) THEN reference_map
                         ELSE IF ~Truthy(dependent_address) THEN reference_map
                         ELSE IF ~IsDict(expressions) THEN reference_map
                         ELSE _extract_references_from_expressions(
                                  expressions, Val(dependent_address), reference_map))
    IN Each(ConfigResources(plan), << >>)

\* the constants of one configured resource: the top-level entries of its
\* expressions that are a dict holding "constant_value"
TopLevelConstants(expressions) ==
    LET RECURSIVE Each(_)
        Each(items) ==
            IF items = << >> THEN << >>
            ELSE (IF /\ IsDict(Head(items)[2])
                     /\ DictHas(Head(items)[2], <<"constant_value">>)
                  THEN << <<Head(items)[1],
                            DictGet(Head(items)[2], <<"constant_value">>)>> >>
                  ELSE << >>) \o Each(Tail(items))
    IN PyDict(Each(Val(expressions)))

extract_constant_values(plan) ==
    LET RECURSIVE Each(_, _)
        Each(rs, constant_map) ==
            IF rs = << >> THEN constant_map
            ELSE LET resource == Head(rs)
                     address == DictGet(resource, <<"address">>)
                     expressions == DictGetOr(resource, <<"expressions">>, PyDict(<< >>))
                 IN Each(Tail(rs),
                         IF ~IsDict(resource) THEN constant_map
                         ELSE IF ~Truthy(address) THEN constant_map
                         ELSE IF ~IsDict(expressions) THEN constant_map
                         ELSE IF Truthy(TopLevelConstants(expressions))
                         THEN MapSet(constant_map, Val(address),
                                     TopLevelConstants(expressions))
                         ELSE constant_map)
    IN Each(ConfigResources(plan), << >>)

(***************************************************************************)
(* berm.models.rule, berm.models.violation                                 *)
(***************************************************************************)
\* A Rule: every optional field is None or a Python value. requires_resources
\* is None or the list of the RequiredResource records; message is a str.
BlankRule ==
    [id |-> <<"r">>, name |-> <<"R">>, severity |-> "error",
     resource_type |-> None, resource_types |-> None,
     property |-> None, resource_forbidden |-> None,
     equals |-> None, greater_than |-> None, greater_than_or_equal |-> None,
     less_than |-> None, less_than_or_equal |-> None, contains |-> None,
     in_list |-> None, regex_match |-> None, has_keys |-> None,
     is_not_empty |-> None, requires_resources |-> None,
     message |-> <<"{{resource_name}}", " ", "fails">>]

\* A RequiredResource with the defaults of its fields
BlankRequired ==
    [resource_type |-> << >>, relationship |-> "same_name_suffix",
     reference_property |-> None, min_count |-> 1, max_count |-> None,
     conditions |-> None, message_suffix |-> None]

\* Rule.format_message
format_message(rule, resource_name, output_context) ==
    Replace(rule.message, "{{resource_name}}",
            sanitize_for_output(resource_name, output_context))

Violation(rule_id, rule_name, resource_name, resource_type, severity, message) ==
    [rule_id |-> rule_id, rule_name |-> rule_name,
     resource_name |-> resource_name, resource_type |-> resource_type,
     severity |-> severity, message |-> message]

(***************************************************************************)
(* berm.evaluators.simple: SimpleEvaluator                                 *)
(***************************************************************************)
BoolTrueWords == {<<"t", "r", "u", "e">>, <<"y", "e", "s">>, <<"1">>}
BoolFalseWords == {<<"f", "a", "l", "s", "e">>, <<"n", "o">>, <<"0">>}

_check_equals(actual, expected) ==
    IF PyEq(actual, expected) THEN TRUE
    ELSE IF /\ IsBool(expected) /\ IsStr(actual)
            /\ \/ Val(expected) /\ Lower(Val(actual)) \in BoolTrueWords
               \/ ~Val(expected) /\ Lower(Val(actual)) \in BoolFalseWords
         THEN TRUE
    ELSE IF /\ IsBool(actual) /\ IsStr(expected)
            /\ \/ Val(actual) /\ Lower(Val(expected)) \in BoolTrueWords
               \/ ~Val(actual) /\ Lower(Val(expected)) \in BoolFalseWords
         THEN TRUE
    ELSE IF IsNumber(expected) /\ IsStr(actual) /\ PyFloat(actual).ok
         THEN FloatCmp(PyFloat(actual), PyFloat(expected)) = 0
    ELSE IF IsNumber(actual) /\ IsStr(expected) /\ PyFloat(expected).ok
         THEN FloatCmp(PyFloat(actual), PyFloat(expected)) = 0
    ELSE FALSE

\* cmp is the operator handed over: "gt", "ge", "lt" or "le"
_check_numeric_comparison(actual, expected, cmp) ==
    IF ~PyFloat(actual).ok THEN FALSE            \* except (ValueError, TypeError)
    ELSE LET c == FloatCmp(PyFloat(actual), PyFloat(expected)) IN
         CASE cmp = "gt" -> c > 0
           [] cmp = "ge" -> c >= 0
           [] cmp = "lt" -> c < 0
           [] cmp = "le" -> c <= 0

_check_greater_than(actual, expected) ==
    _check_numeric_comparison(actual, expected, "gt")
_check_greater_than_or_equal(actual, expected) ==
    _check_numeric_comparison(actual, expected, "ge")
_check_less_than(actual, expected) ==
    _check_numeric_comparison(actual, expected, "lt")
_check_less_than_or_equal(actual, expected) ==
    _check_numeric_comparison(actual, expected, "le")

\* expected is a str
_check_contains(actual, expected) ==
    IF IsStr(actual) THEN Contains(Val(actual), Val(expected))
    ELSE IF IsList(actual)
         THEN \E i \in 1..Len(Val(actual)) : PyEq(Val(actual)[i], expected)
    ELSE Contains(PyStrOf(actual), Val(expected))

_check_in_list(actual, expected_list) ==
    \/ \E i \in 1..Len(Val(expected_list)) : PyEq(actual, Val(expected_list)[i])
    \/ \E i \in 1..Len(Val(expected_list)) :
          _check_equals(actual, Val(expected_list)[i])

_check_regex_match(actual, pattern) ==
    IF ~RegexCompiles(Val(pattern)) THEN FALSE   \* except re.error
    ELSE RegexSearch(Val(pattern), PyStrOf(actual))

\* the exception _check_regex_match lets through: it catches re.error,
\* ValueError and TypeError, and OverflowError is none of them
CheckRegexMatchRaises(pattern) ==
    IF /\ ~ (\E i \in 1..Len(Val(pattern)) : Val(pattern)[i] = "(")
       /\ RegexRepeatOverflows(Val(pattern))
    THEN "OverflowError" ELSE "none"

_check_has_keys(actual, required_keys) ==
    IF ~IsDict(actual) THEN FALSE
    ELSE \A i \in 1..Len(Val(required_keys)) :
            DictHas(actual, Val(Val(required_keys)[i]))

_check_is_not_empty(actual) ==
    IF IsNone(actual) THEN FALSE
    ELSE IF Tag(actual) \in {"str", "list", "dict"} THEN Len(Val(actual)) > 0
    ELSE TRUE

\* the if/elif chain of _check_resource that picks the comparison: passes and
\* operator_desc
Comparison(rule, actual_value) ==
    IF rule.equals # None
    THEN [passes |-> _check_equals(actual_value, rule.equals),
          desc |-> <<"equals '">> \o PyStrOf(rule.equals) \o <<"'">>]
    ELSE IF rule.greater_than # None
    THEN [passes |-> _check_greater_than(actual_value, rule.greater_than),
          desc |-> <<"> ">> \o PyStrOf(rule.greater_than)]
    ELSE IF rule.greater_than_or_equal # None
    THEN [passes |-> _check_greater_than_or_equal(actual_value, rule.greater_than_or_equal),
          desc |-> <<">= ">> \o PyStrOf(rule.greater_than_or_equal)]
    ELSE IF rule.less_than # None
    THEN [passes |-> _check_less_than(actual_value, rule.less_than),
          desc |-> <<"< ">> \o PyStrOf(rule.less_than)]
    ELSE IF rule.less_than_or_equal # None
    THEN [passes |-> _check_less_than_or_equal(actual_value, rule.less_than_or_equal),
          desc |-> <<"<= ">> \o PyStrOf(rule.less_than_or_equal)]
    ELSE IF rule.contains # None
    THEN [passes |-> _check_contains(actual_value, rule.contains),
          desc |-> <<"contains '">> \o PyStrOf(rule.contains) \o <<"'">>]
    ELSE IF rule.in_list # None
    THEN [passes |-> _check_in_list(actual_value, rule.in_list),
          desc |-> <<"in ">> \o PyStrOf(rule.in_list)]
    ELSE IF rule.regex_match # None
    THEN [passes |-> _check_regex_match(actual_value, rule.regex_match),
          desc |-> <<"matches pattern '">> \o PyStrOf(rule.regex_match) \o <<"'">>]
    ELSE IF rule.has_keys # None
    THEN [passes |-> _check_has_keys(actual_value, rule.has_keys),
          desc |-> <<"has keys ">> \o PyStrOf(rule.has_keys)]
    ELSE IF rule.is_not_empty # None
    THEN [passes |-> _check_is_not_empty(actual_value),
          desc |-> <<"is not empty">>]
    ELSE [passes |-> FALSE, desc |-> <<"unknown">>]

\* _check_resource returns a Violation or None: here a sequence holding the
\* violation, or the empty sequence
_check_resource(rule, resource) ==
    LET message == format_message(rule, resource.address, "terminal")
        actual_value == get_nested_property(resource.values, Val(rule.property))
        cmp == Comparison(rule, actual_value)
        V(msg) == Violation(rule.id, rule.name, resource.address, resource.type,
                            rule.severity, msg) IN
    IF rule.resource_forbidden = PyBool(TRUE) THEN <<V(message)>>
    ELSE IF IsNone(actual_value)
    THEN <<V(message \o <<" (property '">> \o Val(rule.property) \o <<"' not found)">>)>>
    ELSE IF ~cmp.passes
    THEN <<V(message \o <<" (expected ">> \o cmp.desc \o <<", got '">>
               \o PyStrOf(actual_value) \o <<"')">>)>>
    ELSE << >>

\* the exception _check_resource propagates, "none" when it returns: the
\* regex comparator is reached when the property resolves and no comparator
\* before it in the chain is set
CheckResourceRaises(rule, resource) ==
    IF /\ rule.resource_forbidden # PyBool(TRUE)
       /\ ~IsNone(get_nested_property(resource.values, Val(rule.property)))
       /\ rule.equals = None /\ rule.greater_than = None
       /\ rule.greater_than_or_equal = None /\ rule.less_than = None
       /\ rule.less_than_or_equal = None /\ rule.contains = None
       /\ rule.in_list = None
       /\ rule.regex_match # None
    THEN CheckRegexMatchRaises(rule.regex_match)
    ELSE "none"

\* variant: no type filter
MatchingResourcesUnfiltered(rule, rs) == rs

\* the resources the rule's type filter keeps, in input order
MatchingResources(rule, rs) ==
    IF rule.resource_type # None
    THEN SelectSeq(rs, LAMBDA r : r.type = Val(rule.resource_type))
    ELSE IF rule.resource_types # None
    THEN SelectSeq(rs, LAMBDA r :
             \E i \in 1..Len(Val(rule.resource_types)) :
                 Val(Val(rule.resource_types)[i]) = r.type)
    ELSE << >>

RECURSIVE CheckEach(_, _)
CheckEach(rule, rs) ==
    IF rs = << >> THEN << >>
    ELSE _check_resource(rule, Head(rs)) \o CheckEach(rule, Tail(rs))

\* variant: every rule without a property is skipped, a forbidden one too
EvaluateSkippingForbidden(rule, rs) ==
    IF rule.property = None THEN << >>
    ELSE CheckEach(rule, MatchingResources(rule, rs))

\* SimpleEvaluator.evaluate
evaluate(rule, rs) ==
    IF rule.property = None /\ ~Truthy(rule.resource_forbidden) THEN << >>
    ELSE CheckEach(rule, MatchingResources(rule, rs))

\* the exception evaluate propagates: that of the first matching resource
\* whose check raises
EvaluateRaises(rule, rs) ==
    LET matching == MatchingResources(rule, rs)
        raising == {i \in 1..Len(matching) :
                       CheckResourceRaises(rule, matching[i]) # "none"} IN
    IF rule.property = None /\ ~Truthy(rule.resource_forbidden) THEN "none"
    ELSE IF raising = {} THEN "none"
    ELSE CheckResourceRaises(rule, matching[CHOOSE i \in raising :
                                               \A j \in raising : i <= j])

\* the exception evaluate_all propagates: that of the first rule that raises
EvaluateAllRaises(rs_rules, rs) ==
    LET raising == {i \in 1..Len(rs_rules) : EvaluateRaises(rs_rules[i], rs) # "none"} IN
    IF raising = {} THEN "none"
    ELSE EvaluateRaises(rs_rules[CHOOSE i \in raising : \A j \in raising : i <= j], rs)

\* a variant that stops after the first rule that yields violations
RECURSIVE EvaluateAllUntilFirst(_, _)
EvaluateAllUntilFirst(rs_rules, rs) ==
    IF rs_rules = << >> THEN << >>
    ELSE IF evaluate(Head(rs_rules), rs) # << >> THEN evaluate(Head(rs_rules), rs)
    ELSE EvaluateAllUntilFirst(Tail(rs_rules), rs)

\* SimpleEvaluator.evaluate_all
RECURSIVE evaluate_all(_, _)
evaluate_all(rs_rules, rs) ==
    IF rs_rules = << >> THEN << >>
    ELSE evaluate(Head(rs_rules), rs) \o evaluate_all(Tail(rs_rules), rs)

(***************************************************************************)
(* Inputs of the resolver specification                                    *)
(***************************************************************************)
MaxPathLen == 5
ShortListLen == 2

PathAlphabet == {"p", ".", "-", "0", "1"}

RECURSIVE StringsUpTo(_, _)
StringsUpTo(alphabet, n) ==
    IF n = 0 THEN {<< >>}
    ELSE LET shorter == StringsUpTo(alphabet, n - 1) IN
         shorter \cup {Append(s, c) : s \in {t \in shorter : Len(t) = n - 1},
                                       c \in alphabet}

ResolvePaths == StringsUpTo(PathAlphabet, MaxPathLen)

\* [10, 11, ...]: element i is the int 10 + i, so an element names its index
IntList(n) == PyList([i \in 1..n |-> PyInt(9 + i)])

ResolveObjects ==
    { None,
      PyDict(<< >>),
      PyDict(<< <<<<"p">>, None>> >>),
      PyDict(<< <<<<"p">>, PyStr(<<"p">>)>> >>),
      PyDict(<< <<<<"p">>, IntList(0)>> >>),
      PyDict(<< <<<<"p">>, IntList(ShortListLen)>> >>),
      PyDict(<< <<<<"p">>, IntList(MAX_ARRAY_INDEX + 2)>> >>),
      PyDict(<< <<<<"p">>, PyDict(<< <<<<"0">>, PyBool(TRUE)>>,
                                     <<<<"p">>, IntList(1)>> >>)>> >>),
      PyList(<<PyDict(<< <<<<"p">>, PyInt(1)>> >>), IntList(ShortListLen), None>>) }

InitResolve ==
    /\ op = "init"
    /\ obj \in ResolveObjects
    /\ path \in ResolvePaths
    /\ rules = << >>
    /\ resources = << >>
    /\ plan_data = None
    /\ violations = << >>
    /\ result = None
    /\ raised = "none"
    /\ rule_files = << >>
    /\ strict = FALSE
    /\ references = << >>
    /\ constants = << >>
    /\ calls = 1

\* a call get_nested_property(obj, path)
Resolve ==
    /\ op = "init"
    /\ op' = "resolve"
    /\ result' = get_nested_property(obj, path)
    /\ UNCHANGED <<rules, resources, plan_data, obj, path, violations, raised, rule_files, strict,
                 references, constants, calls>>

NextResolve == Resolve

ResolveSpec == InitResolve /\ [][NextResolve]_vars

(***************************************************************************)
(* Inputs of the path-shape specification: paths at the limits of          *)
(* validate_property_path, against values they would resolve in            *)
(***************************************************************************)
ExtraDepth == 1
ExtraLength == 1

\* {"p": {"p": ... 1}}, n levels deep
RECURSIVE DeepDict(_)
DeepDict(n) ==
    IF n = 0 THEN PyInt(1)
    ELSE PyDict(<< <<<<"p">>, DeepDict(n - 1)>> >>)

\* "p.p. ... .p", n segments
Segments(n) == Join([i \in 1..n |-> <<"p">>], ".")
\* "ppp...p", n characters
LongSegment(n) == [i \in 1..n |-> "p"]

\* the characters a key of a plan may hold besides letters: NUL, BEL, tab,
\* newline, carriage return, ESC, DEL
KeyControlChars == {"NUL", "BEL", "\t", "\n", "\r", "ESC", "DEL"}

ShapePaths ==
    {Segments(n) : n \in 0..(MAX_PROPERTY_DEPTH + ExtraDepth)}
    \cup {LongSegment(n) : n \in (MAX_PROPERTY_PATH_LENGTH - 1)
                                    ..(MAX_PROPERTY_PATH_LENGTH + ExtraLength)}
    \cup {LongSegment(MAX_PROPERTY_PATH_LENGTH - 2) \o <<".", "p">>,
          LongSegment(MAX_PROPERTY_PATH_LENGTH - 1) \o <<".", "p">>}
    \cup {<<".">>, <<"p", ".">>, <<".", "p">>, <<"p", ".", ".", "p">>}
    \cup {<<c>> : c \in KeyControlChars}
    \cup {<<"p", c>> : c \in KeyControlChars}
    \cup {<<"p", ".", c, "p">> : c \in KeyControlChars}

\* values in which the paths above name something
ShapeObjects ==
    {DeepDict(n) : n \in {1, MAX_PROPERTY_DEPTH - 1, MAX_PROPERTY_DEPTH,
                          MAX_PROPERTY_DEPTH + ExtraDepth}}
    \cup {PyDict(<< <<LongSegment(n), PyDict(<< <<<<"p">>, PyInt(2)>> >>)>> >>) :
             n \in (MAX_PROPERTY_PATH_LENGTH - 2)
                       ..(MAX_PROPERTY_PATH_LENGTH + ExtraLength)}
    \cup {PyDict(<< <<<< >>, PyDict(<< <<<<"p">>, PyInt(3)>> >>)>>,
                    <<<<"p">>, PyDict(<< <<<< >>, PyDict(<< <<<<"p">>, PyInt(4)>> >>)>> >>)>> >>)}
    \cup {PyDict(<< <<<<c>>, PyInt(5)>>, <<<<"p", c>>, PyInt(6)>>,
                    <<<<"p">>, PyDict(<< <<<<c, "p">>, PyInt(7)>> >>)>> >>) :
             c \in KeyControlChars}

InitShape ==
    /\ op = "init"
    /\ obj \in ShapeObjects
    /\ path \in ShapePaths
    /\ rules = << >>
    /\ resources = << >>
    /\ plan_data = None
    /\ violations = << >>
    /\ result = None
    /\ raised = "none"
    /\ rule_files = << >>
    /\ strict = FALSE
    /\ references = << >>
    /\ constants = << >>
    /\ calls = 1

ShapeSpec == InitShape /\ [][NextResolve]_vars

(***************************************************************************)
(* berm.evaluators.cross_resource: CrossResourceEvaluator                  *)
(***************************************************************************)
\* by_type: type -> the resources of the type, in input order; by_address:
\* address -> the last resource with the address. A resource whose type
\* (address) is empty is left out of by_type (by_address).
_build_resource_index(rs) ==
    [by_type |->
        [t \in {rs[i].type : i \in {j \in 1..Len(rs) : rs[j].type # << >>}} |->
            SelectSeq(rs, LAMBDA r : r.type = t)],
     by_address |->
        [a \in {rs[i].address : i \in {j \in 1..Len(rs) : rs[j].address # << >>}} |->
            rs[CHOOSE i \in 1..Len(rs) :
                  /\ rs[i].address = a
                  /\ \A j \in 1..Len(rs) : rs[j].address = a => j <= i]]]

\* resource_index["by_type"].get(type, [])
OfType(resource_index, type) ==
    IF type \in DOMAIN resource_index.by_type
    THEN resource_index.by_type[type] ELSE << >>

_get_primary_resources(rule, resource_index) ==
    LET RECURSIVE Extend(_)
        Extend(types) ==
            IF types = << >> THEN << >>
            ELSE OfType(resource_index, Val(Head(types))) \o Extend(Tail(types))
    IN
    IF Truthy(rule.resource_type) THEN OfType(resource_index, Val(rule.resource_type))
    ELSE IF Truthy(rule.resource_types) THEN Extend(Val(rule.resource_types))
    ELSE << >>

IdentifierProps == <<<<"bucket">>, <<"id">>, <<"name">>, <<"identifier">>, <<"arn">>>>

_get_resource_identifier(resource) ==
    LET usable == {i \in 1..Len(IdentifierProps) :
                      LET value == DictGet(resource.values, IdentifierProps[i]) IN
                      Truthy(value) /\ IsStr(value)} IN
    IF usable # {}
    THEN Val(DictGet(resource.values,
                     IdentifierProps[CHOOSE i \in usable : \A j \in usable : i <= j]))
    ELSE resource.address

\* variant: a constant that merely contains the address does not match
MatchesIdentifierExactly(ref_value, primary_id, primary_address) ==
    IF ~IsStr(ref_value) THEN FALSE
    ELSE \/ Val(ref_value) = primary_id
         \/ Val(ref_value) = primary_address

\* ref_value is a Python value, primary_id and primary_address are strs
_matches_identifier(ref_value, primary_id, primary_address) ==
    IF ~IsStr(ref_value) THEN FALSE
    ELSE \/ Val(ref_value) = primary_id
         \/ Val(ref_value) = primary_address
         \/ Contains(Val(ref_value), primary_address)

InSeq(x, xs) == \E i \in 1..Len(xs) : xs[i] = x

_find_by_referenced_by_primary(primary, required, resource_index, reference_map, constant_map) ==
    LET primary_address == primary.address
        \* strategy 1: the dependents the reference map lists
        RECURSIVE ByReference(_)
        ByReference(dependent_addresses) ==
            IF dependent_addresses = << >> THEN << >>
            ELSE (IF /\ Head(dependent_addresses) \in DOMAIN resource_index.by_address
                     /\ resource_index.by_address[Head(dependent_addresses)].type
                            = required.resource_type
                  THEN <<resource_index.by_address[Head(dependent_addresses)]>>
                  ELSE << >>) \o ByReference(Tail(dependent_addresses))
        strategy1 == IF MapHas(reference_map, primary_address)
                     THEN ByReference(MapGet(reference_map, primary_address))
                     ELSE << >>
        primary_identifier == _get_resource_identifier(primary)
        \* strategy 2: the candidates whose constant names the primary
        RECURSIVE ByConstant(_, _)
        ByConstant(candidates, matches) ==
            IF candidates = << >> THEN matches
            ELSE LET candidate == Head(candidates)
                     ref_value == DictGet(MapGet(constant_map, candidate.address),
                                          Val(required.reference_property))
                 IN ByConstant(Tail(candidates),
                        IF /\ MapHas(constant_map, candidate.address)
                           /\ Truthy(ref_value)
                           /\ _matches_identifier(ref_value, primary_identifier,
                                                  primary_address)
                           /\ ~InSeq(candidate, matches)
                        THEN Append(matches, candidate)
                        ELSE matches)
    IN
    IF Truthy(required.reference_property)
    THEN ByConstant(OfType(resource_index, required.resource_type), strategy1)
    ELSE strategy1

\* variant: the edge is read in the other direction
FindByReferencesReversed(primary, required, resource_index, reference_map, constant_map) ==
    SelectSeq(OfType(resource_index, required.resource_type),
              LAMBDA candidate :
                  /\ MapHas(reference_map, primary.address)
                  /\ InSeq(candidate.address, MapGet(reference_map, primary.address)))

\* variant: without a reference map the resources are matched by name
FindByReferencesOrByName(primary, required, resource_index, reference_map, constant_map) ==
    SelectSeq(OfType(resource_index, required.resource_type),
              LAMBDA candidate :
                  IF reference_map = << >> THEN candidate.name = primary.name
                  ELSE /\ MapHas(reference_map, candidate.address)
                       /\ InSeq(primary.address, MapGet(reference_map, candidate.address)))

_find_by_references_primary(primary, required, resource_index, reference_map, constant_map) ==
    SelectSeq(OfType(resource_index, required.resource_type),
              LAMBDA candidate :
                  /\ MapHas(reference_map, candidate.address)
                  /\ InSeq(primary.address, MapGet(reference_map, candidate.address)))

\* variant: every resource of the target type is related, whatever its name
FindByTypeOnly(primary, required, resource_index) ==
    IF primary.name = << >> THEN << >>
    ELSE OfType(resource_index, required.resource_type)

\* variant: the primary itself is never one of its related resources
FindByNameSuffixExcludingPrimary(primary, required, resource_index) ==
    IF primary.name = << >> THEN << >>
    ELSE SelectSeq(OfType(resource_index, required.resource_type),
                   LAMBDA candidate : /\ candidate.name = primary.name
                                      /\ candidate.address # primary.address)

_find_by_name_suffix(primary, required, resource_index) ==
    IF primary.name = << >> THEN << >>
    ELSE SelectSeq(OfType(resource_index, required.resource_type),
                   LAMBDA candidate : candidate.name = primary.name)

_find_related_resources(primary, required, resource_index, reference_map, constant_map) ==
    IF required.relationship = "referenced_by_primary"
    THEN _find_by_referenced_by_primary(primary, required, resource_index,
                                        reference_map, constant_map)
    ELSE IF required.relationship = "references_primary"
    THEN _find_by_references_primary(primary, required, resource_index,
                                     reference_map, constant_map)
    ELSE IF required.relationship = "same_name_suffix"
    THEN _find_by_name_suffix(primary, required, resource_index)
    ELSE << >>

\* variant: the message_suffix of the spec is left out
CreateViolationWithoutSuffix(rule, primary, required, detail_message) ==
    Violation(rule.id, rule.name, primary.address, primary.type, rule.severity,
              format_message(rule, primary.address, "terminal") \o <<": ">>
                  \o detail_message)

_create_violation(rule, primary, required, detail_message) ==
    LET base_message == format_message(rule, primary.address, "terminal")
        full_message ==
            IF Truthy(required.message_suffix)
            THEN base_message \o <<": ">> \o detail_message \o <<" ">>
                     \o Val(required.message_suffix)
            ELSE base_message \o <<": ">> \o detail_message
    IN Violation(rule.id, rule.name, primary.address, primary.type,
                 rule.severity, full_message)

\* variant: the condition is compared with the coercing equality of the
\* property rules
ValidateConditionsCoercing(rule, primary, required, related_resource) ==
    LET RECURSIVE Each(_)
        Each(items) ==
            IF items = << >> THEN << >>
            ELSE LET property_path == Head(items)[1]
                     expected_value == Head(items)[2]
                     actual_value == get_nested_property(related_resource.values,
                                                         property_path)
                 IN (IF ~_check_equals(actual_value, expected_value)
                     THEN <<_create_violation(rule, primary, required,
                               <<"Related resource ">> \o related_resource.address
                               \o <<" fails condition: ">> \o property_path
                               \o <<" is ">> \o PyRepr(actual_value)
                               \o <<", expected ">> \o PyRepr(expected_value))>>
                     ELSE << >>) \o Each(Tail(items))
    IN IF ~Truthy(required.conditions) THEN << >>
       ELSE Each(Val(required.conditions))

_validate_conditions(rule, primary, required, related_resource) ==
    LET RECURSIVE Each(_)
        Each(items) ==
            IF items = << >> THEN << >>
            ELSE LET property_path == Head(items)[1]
                     expected_value == Head(items)[2]
                     actual_value == get_nested_property(related_resource.values,
                                                         property_path)
                 IN (IF ~PyEq(actual_value, expected_value)
                     THEN <<_create_violation(rule, primary, required,
                               <<"Related resource ">> \o related_resource.address
                               \o <<" fails condition: ">> \o property_path
                               \o <<" is ">> \o PyRepr(actual_value)
                               \o <<", expected ">> \o PyRepr(expected_value))>>
                     ELSE << >>) \o Each(Tail(items))
    IN IF ~Truthy(required.conditions) THEN << >>
       ELSE Each(Val(required.conditions))

\* the detail messages of _check_required_resource
MissingDetail(required, found) ==
    <<"Missing required ">> \o required.resource_type
    \o <<" (found ">> \o IntToStr(found)
    \o <<", need ">> \o IntToStr(required.min_count) \o <<")">>

TooManyDetail(required, found) ==
    <<"Too many ">> \o required.resource_type
    \o <<" (found ">> \o IntToStr(found)
    \o <<", max ">> \o PyStrOf(required.max_count) \o <<")">>

\* the loop over the related resources that validates the conditions
RECURSIVE ValidateEach(_, _, _, _)
ValidateEach(rule, primary, required, related_resources) ==
    IF related_resources = << >> THEN << >>
    ELSE _validate_conditions(rule, primary, required, Head(related_resources))
             \o ValidateEach(rule, primary, required, Tail(related_resources))

\* variant: the min_count violation does not end the check of the spec
CheckRequiredWithoutEarlyReturn(rule, primary, required, resource_index, reference_map, constant_map) ==
    LET related_resources == _find_related_resources(primary, required,
                                 resource_index, reference_map, constant_map)
        found == Len(related_resources)
    IN
    (IF found < required.min_count
     THEN <<_create_violation(rule, primary, required,
                              MissingDetail(required, found))>>
     ELSE << >>)
    \o (IF required.max_count # None /\ found > Val(required.max_count)
        THEN <<_create_violation(rule, primary, required,
                                 TooManyDetail(required, found))>>
        ELSE << >>)
    \o (IF Truthy(required.conditions)
        THEN ValidateEach(rule, primary, required, related_resources)
        ELSE << >>)

\* variant: the max_count violation ends the check of the spec
CheckRequiredTooManyReturns(rule, primary, required, resource_index, reference_map, constant_map) ==
    LET related_resources == _find_related_resources(primary, required,
                                 resource_index, reference_map, constant_map)
        found == Len(related_resources)
    IN
    IF found < required.min_count
    THEN <<_create_violation(rule, primary, required,
                             MissingDetail(required, found))>>
    ELSE IF required.max_count # None /\ found > Val(required.max_count)
    THEN <<_create_violation(rule, primary, required,
                             TooManyDetail(required, found))>>
    ELSE IF Truthy(required.conditions)
    THEN ValidateEach(rule, primary, required, related_resources)
    ELSE << >>

_check_required_resource(rule, primary, required, resource_index, reference_map, constant_map) ==
    LET related_resources == _find_related_resources(primary, required,
                                 resource_index, reference_map, constant_map)
        found == Len(related_resources)
    IN
    IF found < required.min_count
    THEN <<_create_violation(rule, primary, required,
                             MissingDetail(required, found))>>
    ELSE (IF required.max_count # None /\ found > Val(required.max_count)
          THEN <<_create_violation(rule, primary, required,
                                   TooManyDetail(required, found))>>
          ELSE << >>)
         \o (IF Truthy(required.conditions)
             THEN ValidateEach(rule, primary, required, related_resources)
             ELSE << >>)

\* a variant that keeps the map of the call before when the plan is falsy
KeepReferenceMap(previous, plan) ==
    IF Truthy(plan) THEN extract_resource_references(plan) ELSE previous

\* the reference_map and the constant_map of a call: empty, then extracted
\* from the plan when there is one; previous is what the call before built
BuildReferenceMap(previous, plan) ==
    IF Truthy(plan) THEN extract_resource_references(plan) ELSE << >>
BuildConstantMap(previous, plan) ==
    IF Truthy(plan) THEN extract_constant_values(plan) ELSE << >>

\* the loops of CrossResourceEvaluator.evaluate over the maps it built
EvaluateWithMaps(rule, rs, reference_map, constant_map) ==
    LET resource_index == _build_resource_index(rs)
        RECURSIVE EachRequired(_, _)
        EachRequired(primary, reqs) ==
            IF reqs = << >> THEN << >>
            ELSE _check_required_resource(rule, primary, Head(reqs), resource_index,
                                          reference_map, constant_map)
                     \o EachRequired(primary, Tail(reqs))
        RECURSIVE EachPrimary(_)
        EachPrimary(primaries) ==
            IF primaries = << >> THEN << >>
            ELSE EachRequired(Head(primaries), Val(rule.requires_resources))
                     \o EachPrimary(Tail(primaries))
    IN
    EachPrimary(_get_primary_resources(rule, resource_index))

\* CrossResourceEvaluator.evaluate on a fresh instance
cross_evaluate(rule, rs, plan) ==
    IF ~Truthy(rule.requires_resources) THEN << >>
    ELSE EvaluateWithMaps(rule, rs, BuildReferenceMap(<< >>, plan),
                          BuildConstantMap(<< >>, plan))

(***************************************************************************)
(* Inputs of the evaluator specifications                                  *)
(***************************************************************************)
MaxResources == 2

\* resource types: "b" a bucket, "v" its versioning resource
TypeB == <<"b">>
TypeV == <<"v">>
NameX == <<"x">>
NameY == <<"y">>
Address(type, name) == type \o <<".">> \o name

Resource(type, name, values) ==
    [address |-> Address(type, name), type |-> type, name |-> name,
     values |-> values]

KeyP == <<"p">>
StrA == <<"a">>

\* the values trees of the resources of the single-resource evaluations
SimpleValues ==
    { PyDict(<< >>),
      PyDict(<< <<KeyP, None>> >>),
      PyDict(<< <<KeyP, PyBool(TRUE)>> >>),
      PyDict(<< <<KeyP, PyStr(StrA)>> >>),
      PyDict(<< <<KeyP, PyStr(<<"1">>)>> >>),
      PyDict(<< <<KeyP, PyList(<< >>)>> >>),
      PyDict(<< <<KeyP, PyDict(<< <<<<"k">>, PyInt(1)>> >>)>> >>) }

SimpleResources ==
    {Resource(t, n, v) : t \in {TypeB, TypeV}, n \in {NameX, NameY},
                         v \in SimpleValues}

\* the lists of at most n resources of pool with pairwise distinct addresses
RECURSIVE ResourceLists(_, _)
ResourceLists(pool, n) ==
    IF n = 0 THEN {<< >>}
    ELSE LET shorter == ResourceLists(pool, n - 1) IN
         shorter \cup
         UNION {{Append(l, r) :
                    r \in {q \in pool :
                              \A i \in 1..Len(l) : l[i].address # q.address}} :
                l \in {m \in shorter : Len(m) = n - 1}}

PropertyRule(type) ==
    [BlankRule EXCEPT !.resource_type = PyStr(type), !.property = PyStr(KeyP)]

\* rules that Rule construction accepts: one comparator each, a forbidden
\* rule, a rule over resource_types, a warning, a pure cross-resource rule
SimpleRules ==
    { [PropertyRule(TypeB) EXCEPT !.equals = PyBool(TRUE)],
      [PropertyRule(TypeB) EXCEPT !.equals = PyStr(StrA)],
      [PropertyRule(TypeB) EXCEPT !.greater_than = PyInt(0)],
      [PropertyRule(TypeB) EXCEPT !.greater_than_or_equal = PyInt(1)],
      [PropertyRule(TypeB) EXCEPT !.less_than = PyInt(1)],
      [PropertyRule(TypeB) EXCEPT !.less_than_or_equal = PyInt(1)],
      [PropertyRule(TypeB) EXCEPT !.contains = PyStr(StrA)],
      [PropertyRule(TypeB) EXCEPT !.in_list = PyList(<<None, PyStr(StrA)>>)],
      [PropertyRule(TypeB) EXCEPT !.regex_match = PyStr(<<"^", "a">>)],
      [PropertyRule(TypeB) EXCEPT !.regex_match = PyStr(<<"(">>)],
      [PropertyRule(TypeB) EXCEPT !.has_keys = PyList(<<PyStr(<<"k">>)>>)],
      [PropertyRule(TypeB) EXCEPT !.is_not_empty = PyBool(TRUE)],
      [PropertyRule(TypeB) EXCEPT !.is_not_empty = PyBool(FALSE)],
      [PropertyRule(TypeV) EXCEPT !.equals = PyInt(1), !.severity = "warning"],
      [PropertyRule(TypeB) EXCEPT !.resource_type = None,
                                  !.resource_types = PyList(<<PyStr(TypeV), PyStr(TypeB)>>),
                                  !.equals = PyStr(StrA)],
      [BlankRule EXCEPT !.resource_type = PyStr(TypeB),
                        !.resource_forbidden = PyBool(TRUE)],
      [BlankRule EXCEPT !.resource_type = PyStr(TypeB),
                        !.requires_resources =
                            PyList(<<[BlankRequired EXCEPT !.resource_type = TypeV]>>)],
      [PropertyRule(TypeB) EXCEPT !.equals = PyBool(TRUE),
                                  !.requires_resources =
                                      PyList(<<[BlankRequired EXCEPT !.resource_type = TypeV]>>)] }

InitSimple ==
    /\ op = "init"
    /\ rules \in {<<r>> : r \in SimpleRules}
    /\ resources \in ResourceLists(SimpleResources, MaxResources)
    /\ plan_data = None
    /\ obj = None
    /\ path = << >>
    /\ violations = << >>
    /\ result = None
    /\ raised = "none"
    /\ rule_files = << >>
    /\ strict = FALSE
    /\ references = << >>
    /\ constants = << >>
    /\ calls = 1

\* a call SimpleEvaluator().evaluate(rule, resources)
SimpleEvaluate ==
    /\ op = "init"
    /\ op' = "simple"
    /\ raised' = EvaluateRaises(rules[1], resources)
    /\ violations' = IF raised' = "none" THEN evaluate(rules[1], resources) ELSE << >>
    /\ UNCHANGED <<rules, resources, plan_data, obj, path, result, rule_files, strict,
                 references, constants, calls>>

NextSimple == SimpleEvaluate

SimpleSpec == InitSimple /\ [][NextSimple]_vars

(***************************************************************************)
(* Inputs of the totality specification: comparators whose operand or      *)
(* pattern cannot be used                                                  *)
(***************************************************************************)
\* "a{4294967296}": a repeat count one above the largest the regex engine
\* takes
HugeRepeat == <<"a", "{", "4", "2", "9", "4", "9", "6", "7", "2", "9", "6", "}">>

TotalRules ==
    { [PropertyRule(TypeB) EXCEPT !.equals = PyBool(TRUE)],
      [PropertyRule(TypeB) EXCEPT !.greater_than = PyInt(0)],
      [PropertyRule(TypeB) EXCEPT !.regex_match = PyStr(<<"^", "a">>)],
      [PropertyRule(TypeB) EXCEPT !.regex_match = PyStr(<<"(">>)],
      [PropertyRule(TypeB) EXCEPT !.regex_match = PyStr(HugeRepeat)],
      [PropertyRule(TypeB) EXCEPT !.has_keys = PyList(<<PyStr(<<"k">>)>>)] }

InitTotal ==
    /\ op = "init"
    /\ rules \in {<<r>> : r \in TotalRules}
    /\ resources \in ResourceLists(SimpleResources, MaxResources)
    /\ plan_data = None
    /\ obj = None
    /\ path = << >>
    /\ violations = << >>
    /\ result = None
    /\ raised = "none"
    /\ rule_files = << >>
    /\ strict = FALSE
    /\ references = << >>
    /\ constants = << >>
    /\ calls = 1

TotalSpec == InitTotal /\ [][NextSimple]_vars

(***************************************************************************)
(* Inputs of the cross-resource specification                              *)
(***************************************************************************)
MaxCrossResources == 3
MaxCount == 2

KeyS == <<"s">>
KeyT == <<"t">>
KeyBucket == <<"bucket">>
StrTrue == <<"t", "r", "u", "e">>

\* {"configuration": {"root_module": {"resources": configs}}}
Plan(configs) ==
    PyDict(<< <<<<"configuration">>,
                PyDict(<< <<<<"root_module">>,
                            PyDict(<< <<<<"resources">>, PyList(configs)>> >>)>> >>)>> >>)
\* {"address": address, "expressions": expressions}
ConfigResource(address, expressions) ==
    PyDict(<< <<<<"address">>, PyStr(address)>>, <<<<"expressions">>, expressions>> >>)
\* {key: {"references": [target + ".id", target]}}
ReferenceTo(key, target) ==
    PyDict(<< <<key, PyDict(<< <<<<"references">>,
                                 PyList(<<PyStr(target \o <<".", "i", "d">>),
                                          PyStr(target)>>)>> >>)>> >>)
\* {key: {"constant_value": value}}
ConstantOf(key, value) ==
    PyDict(<< <<key, PyDict(<< <<<<"constant_value">>, value>> >>)>> >>)

AddrBX == Address(TypeB, NameX)
AddrBY == Address(TypeB, NameY)
AddrVX == Address(TypeV, NameX)
AddrVY == Address(TypeV, NameY)

\* no plan; both versioning resources point at b.x; each at its own bucket
CrossPlans ==
    { None,
      Plan(<<ConfigResource(AddrVX, ReferenceTo(KeyBucket, AddrBX)),
             ConfigResource(AddrVY, ReferenceTo(KeyBucket, AddrBX))>>),
      Plan(<<ConfigResource(AddrVX, ReferenceTo(KeyBucket, AddrBX)),
             ConfigResource(AddrVY, ReferenceTo(KeyBucket, AddrBY))>>) }

\* values of a related resource: s is True, s is the string "true", s is
\* missing and t is set
RelatedValues ==
    { PyDict(<< <<KeyS, PyBool(TRUE)>> >>),
      PyDict(<< <<KeyS, PyStr(StrTrue)>> >>),
      PyDict(<< <<KeyT, PyInt(1)>> >>) }

CrossResources ==
    {Resource(TypeB, n, PyDict(<< >>)) : n \in {NameX, NameY}}
    \cup {Resource(TypeV, n, v) : n \in {NameX, NameY}, v \in RelatedValues}

CrossConditions ==
    { None,
      PyDict(<< <<KeyS, PyBool(TRUE)>> >>),
      PyDict(<< <<KeyS, PyBool(TRUE)>>, <<KeyT, None>> >>) }

\* the RequiredResource specs that construction accepts: min_count >= 0,
\* max_count absent or >= max(min_count, 1), a reference_property for the
\* reference-based relationships
CrossRequired ==
    {[BlankRequired EXCEPT !.resource_type = TypeV,
                           !.relationship = rel,
                           !.reference_property =
                               IF rel = "same_name_suffix" THEN None
                               ELSE PyStr(KeyBucket),
                           !.min_count = lo,
                           !.max_count = hi,
                           !.conditions = cond] :
        rel \in {"same_name_suffix", "referenced_by_primary"},
        lo \in 0..MaxCount,
        hi \in {None} \cup {PyInt(n) : n \in 1..MaxCount},
        cond \in CrossConditions}
    \ {q \in [resource_type : {TypeV}, relationship : {"same_name_suffix", "referenced_by_primary"},
              reference_property : {None, PyStr(KeyBucket)}, min_count : 0..MaxCount,
              max_count : {PyInt(n) : n \in 1..MaxCount},
              conditions : CrossConditions, message_suffix : {None}] :
          Val(q.max_count) < q.min_count}

CrossRule(reqs) ==
    [BlankRule EXCEPT !.resource_type = PyStr(TypeB),
                      !.requires_resources = PyList(reqs)]

\* one rule per spec, a rule whose two specs name different target types, a
\* rule over resource_types, and a rule without requires_resources
CrossRules ==
    {CrossRule(<<q>>) : q \in CrossRequired}
    \cup { CrossRule(<<[BlankRequired EXCEPT !.resource_type = TypeV,
                                            !.message_suffix = PyStr(<<"!">>)],
                       [BlankRequired EXCEPT !.resource_type = TypeB,
                                            !.min_count = 2]>>),
           [CrossRule(<<[BlankRequired EXCEPT !.resource_type = TypeV,
                                             !.conditions =
                                                 PyDict(<< <<KeyS, PyBool(TRUE)>> >>)]>>)
               EXCEPT !.resource_type = None,
                      !.resource_types = PyList(<<PyStr(TypeB), PyStr(TypeV)>>)],
           [PropertyRule(TypeB) EXCEPT !.equals = PyBool(TRUE)] }

InitCross ==
    /\ op = "init"
    /\ rules \in {<<r>> : r \in CrossRules}
    /\ resources \in ResourceLists(CrossResources, MaxCrossResources)
    /\ plan_data \in CrossPlans
    /\ obj = None
    /\ path = << >>
    /\ violations = << >>
    /\ result = None
    /\ raised = "none"
    /\ rule_files = << >>
    /\ strict = FALSE
    /\ references = << >>
    /\ constants = << >>
    /\ calls = 1

\* a call CrossResourceEvaluator().evaluate(rule, resources, plan_data)
CrossEvaluate ==
    /\ op = "init"
    /\ op' = "cross"
    /\ IF ~Truthy(rules[1].requires_resources)
       THEN /\ violations' = << >>
            /\ UNCHANGED <<references, constants>>
       ELSE /\ references' = BuildReferenceMap(references, plan_data)
            /\ constants' = BuildConstantMap(constants, plan_data)
            /\ violations' = EvaluateWithMaps(rules[1], resources, references',
                                              constants')
    /\ UNCHANGED <<rules, resources, plan_data, obj, path, result, raised, rule_files,
                   strict, calls>>

NextCross == CrossEvaluate

CrossSpec == InitCross /\ [][NextCross]_vars

(***************************************************************************)
(* Claims about the property path resolver                                 *)
(***************************************************************************)
PathParts == Split(path, ".")
LastPart == PathParts[Len(PathParts)]
\* the value the last segment of the path is applied to
LastTarget == Traverse(SubSeq(PathParts, 1, Len(PathParts) - 1), obj)
Min(a, b) == IF a < b THEN a ELSE b

\* the last segment is applied to a sequence
LastOnList ==
    /\ op = "resolve"
    /\ Truthy(obj)
    /\ validate_property_path(path)
    /\ IsList(LastTarget)

\* C10: a segment s applied to a sequence yields the element at index i
\* exactly when s parses as an integer i with 0 <= i < min(len, 100); for
\* every other s (i = len, i < 0, i >= 100, non-numeric) the result is None.
C10_ListIndex ==
    LastOnList =>
        LET elems == Val(LastTarget)
            inRange == {i \in 0..(Min(Len(elems), MAX_ARRAY_INDEX) - 1) :
                          PyIntParse(LastPart).ok /\ PyIntParse(LastPart).v = i} IN
        IF inRange # {}
        THEN \A i \in inRange : result = elems[i + 1]
        ELSE result = None

\* index 100 of a 102-element list is refused
C10_Witness ==
    /\ LastOnList
    /\ Len(Val(LastTarget)) > MAX_ARRAY_INDEX
    /\ PyIntParse(LastPart).ok
    /\ PyIntParse(LastPart).v = MAX_ARRAY_INDEX
    /\ result = None

(***************************************************************************)
(* Claims about the single-resource evaluator                              *)
(***************************************************************************)
\* the rule's type filter, on one resource
TypeMatches(rule, r) ==
    IF rule.resource_type # None THEN r.type = Val(rule.resource_type)
    ELSE \E i \in 1..Len(Val(rule.resource_types)) :
            Val(rule.resource_types)[i] = PyStr(r.type)

\* the positions of the resources that the rule's property check fails: the
\* resolver reports no value (None), or the rule's comparator rejects it
FailingPositions(rule, rs) ==
    {i \in 1..Len(rs) :
        /\ TypeMatches(rule, rs[i])
        /\ LET actual == get_nested_property(rs[i].values, Val(rule.property)) IN
           IsNone(actual) \/ ~Comparison(rule, actual).passes}

\* the k-th smallest member of a set of positions
NthOf(S, k) == CHOOSE i \in S : Cardinality({j \in S : j < i}) = k - 1

\* C1: for a rule with a property and one comparator, evaluate returns one
\* violation for each resource of a matching type whose property the resolver
\* does not find (it answers None) or whose value fails the comparator, none
\* for any other resource, in the order of the resources in the input list.
C1_OnePerFailingResource ==
    (op = "simple" /\ rules[1].property # None) =>
        LET F == FailingPositions(rules[1], resources) IN
        /\ Len(violations) = Cardinality(F)
        /\ \A k \in 1..Len(violations) :
              /\ violations[k].resource_name = resources[NthOf(F, k)].address
              /\ violations[k].resource_type = resources[NthOf(F, k)].type

\* a passing resource of a matching type, then a failing one
C1_Witness ==
    /\ op = "simple"
    /\ rules[1].property # None
    /\ Len(resources) = 2
    /\ Len(violations) = 1
    /\ violations[1].resource_name = resources[2].address
    /\ TypeMatches(rules[1], resources[1])

(***************************************************************************)
(* The evaluation step of a check run (cli.run_check): every loaded rule   *)
(* goes through SimpleEvaluator.evaluate_all(rules, resources)              *)
(***************************************************************************)
MaxRules == 2

\* a property rule, a forbidden rule, a rule with requires_resources only, a
\* rule with a property and requires_resources, a rule whose pattern makes
\* re.compile raise OverflowError
CheckRules ==
    { [PropertyRule(TypeB) EXCEPT !.equals = PyBool(TRUE)],
      [PropertyRule(TypeB) EXCEPT !.regex_match = PyStr(HugeRepeat)],
      [BlankRule EXCEPT !.resource_type = PyStr(TypeV),
                        !.resource_forbidden = PyBool(TRUE)],
      CrossRule(<<[BlankRequired EXCEPT !.resource_type = TypeV]>>),
      [PropertyRule(TypeB) EXCEPT
          !.equals = PyBool(TRUE),
          !.requires_resources =
              PyList(<<[BlankRequired EXCEPT !.resource_type = TypeV]>>)] }

RECURSIVE RuleLists(_)
RuleLists(n) ==
    IF n = 0 THEN {<< >>}
    ELSE RuleLists(n - 1)
         \cup {Append(l, r) : l \in {m \in RuleLists(n - 1) : Len(m) = n - 1},
                              r \in CheckRules}

CheckResources ==
    {Resource(TypeB, n, v) : n \in {NameX, NameY},
                             v \in {PyDict(<< <<KeyP, PyBool(TRUE)>> >>),
                                    PyDict(<< <<KeyP, PyBool(FALSE)>> >>)}}
    \cup {Resource(TypeV, NameX, PyDict(<< >>))}

Init ==
    /\ op = "init"
    /\ rules \in RuleLists(MaxRules)
    /\ resources \in ResourceLists(CheckResources, MaxResources)
    /\ plan_data \in {None, Plan(<<ConfigResource(AddrVX,
                                       ReferenceTo(KeyBucket, AddrBX))>>)}
    /\ obj = None
    /\ path = << >>
    /\ violations = << >>
    /\ result = None
    /\ raised = "none"
    /\ rule_files = << >>
    /\ strict = FALSE
    /\ references = << >>
    /\ constants = << >>
    /\ calls = 1

\* violations = evaluator.evaluate_all(rules, resources): the run hands the
\* evaluator the resources of the plan and nothing else of the plan document
EvaluateAll ==
    /\ op = "init"
    /\ op' = "check"
    /\ raised' = EvaluateAllRaises(rules, resources)
    /\ violations' = IF raised' = "none" THEN evaluate_all(rules, resources) ELSE << >>
    /\ UNCHANGED <<rules, resources, plan_data, obj, path, result, rule_files, strict,
                 references, constants, calls>>

Next == EvaluateAll

Spec == Init /\ [][Next]_vars

(***************************************************************************)
(* Inputs of the relationship specification: plans whose configuration     *)
(* points resources at each other by reference and by constant             *)
(***************************************************************************)
StrK == <<"k">>
StrZ == <<"z">>
KeyId == <<"id">>

\* values of a primary: no identifier, a bucket name, an empty bucket name
\* before an id, a null bucket before an id, another bucket name before an id
RelatePrimaryValues ==
    { PyDict(<< >>),
      PyDict(<< <<KeyBucket, PyStr(StrK)>> >>),
      PyDict(<< <<KeyBucket, PyStr(<< >>)>>, <<KeyId, PyStr(StrK)>> >>),
      PyDict(<< <<KeyBucket, None>>, <<KeyId, PyStr(StrK)>> >>),
      PyDict(<< <<KeyBucket, PyStr(StrZ)>>, <<KeyId, PyStr(StrK)>> >>) }

\* the resources of a call: at most MaxCrossResources of b.x, b.y, v.x and
\* v.y, buckets first or versioning resources first
RelateResourceLists ==
    {SelectSeq(order, LAMBDA r : r.address \in chosen) :
        order \in UNION {{<<bx, by, vx, vy>>, <<vy, vx, by, bx>>} :
                            bx \in {Resource(TypeB, NameX, v) : v \in RelatePrimaryValues},
                            by \in {Resource(TypeB, NameY, PyDict(<< >>))},
                            vx \in {Resource(TypeV, NameX, PyDict(<< >>))},
                            vy \in {Resource(TypeV, NameY, PyDict(<< >>))}},
        chosen \in {c \in SUBSET {AddrBX, AddrBY, AddrVX, AddrVY} :
                       Cardinality(c) <= MaxCrossResources}}

\* expressions of v.x: none, a reference to b.x or to b.y, the constant "k",
\* "", the address of b.x or a text that contains it, and the constant "k"
\* next to a reference to b.x
ExpressionsOfVX ==
    { PyDict(<< >>),
      ReferenceTo(KeyBucket, AddrBX),
      ReferenceTo(KeyBucket, AddrBY),
      ConstantOf(KeyBucket, PyStr(StrK)),
      ConstantOf(KeyBucket, PyStr(<< >>)),
      ConstantOf(KeyBucket, PyStr(AddrBX)),
      ConstantOf(KeyBucket, PyStr(<<"a", ":">> \o AddrBX \o <<"/">>)),
      PyDict(Val(ConstantOf(KeyBucket, PyStr(StrK)))
             \o Val(ReferenceTo(KeyT, AddrBX))) }

\* expressions of v.y: none, the constant "k" next to a reference to b.x
ExpressionsOfVY ==
    { PyDict(<< >>),
      PyDict(Val(ConstantOf(KeyBucket, PyStr(StrK)))
             \o Val(ReferenceTo(KeyT, AddrBX))) }

\* configuration of b.x: absent, pointing at v.x, pointing at b.y
ConfigsOfBX ==
    { << >>,
      <<ConfigResource(AddrBX, ReferenceTo(KeyT, AddrVX))>>,
      <<ConfigResource(AddrBX, ReferenceTo(KeyT, AddrBY))>> }

RelatePlans ==
    {None}
    \cup {Plan(<<ConfigResource(AddrVX, ex), ConfigResource(AddrVY, ey)>> \o cb) :
             ex \in ExpressionsOfVX, ey \in ExpressionsOfVY, cb \in ConfigsOfBX}

\* min_count is 1 or more than the resources of a call can supply
RelateRequired ==
    {[BlankRequired EXCEPT !.resource_type = TypeV,
                           !.relationship = rel[1],
                           !.reference_property = PyStr(rel[2]),
                           !.min_count = lo] :
        rel \in {<<"referenced_by_primary", KeyBucket>>,
                 <<"referenced_by_primary", KeyT>>,
                 <<"references_primary", KeyBucket>>},
        lo \in {1, MaxCrossResources}}

InitRelate ==
    /\ op = "init"
    /\ rules \in {<<CrossRule(<<q>>)>> : q \in RelateRequired}
    /\ resources \in RelateResourceLists
    /\ plan_data \in RelatePlans
    /\ obj = None
    /\ path = << >>
    /\ violations = << >>
    /\ result = None
    /\ raised = "none"
    /\ rule_files = << >>
    /\ strict = FALSE
    /\ references = << >>
    /\ constants = << >>
    /\ calls = 1

RelateSpec == InitRelate /\ [][NextCross]_vars

(***************************************************************************)
(* berm.models.rule: construction of RequiredResource and Rule             *)
(***************************************************************************)
\* the Field constraints of RequiredResource
RequiredFieldsValid(required) ==
    /\ required.resource_type # << >>                                \* min_length=1
    /\ required.relationship \in {"references_primary", "referenced_by_primary",
                                  "same_name_suffix"}
    /\ required.reference_property # PyStr(<< >>)                    \* min_length=1
    /\ required.min_count >= 0                                       \* ge=0
    /\ required.max_count # None => Val(required.max_count) >= 1     \* ge=1
    /\ required.message_suffix # PyStr(<< >>)                        \* min_length=1

validate_reference_property_required(required) ==
    required.relationship \in {"references_primary", "referenced_by_primary"}
        => required.reference_property # None

\* a variant that also rejects max_count = min_count
CountRangeStrict(required) ==
    ~ (required.max_count # None /\ Val(required.max_count) <= required.min_count)

validate_count_range(required) ==
    ~ (required.max_count # None /\ Val(required.max_count) < required.min_count)

\* RequiredResource(**fields) returns
RequiredResourceAccepted(required) ==
    /\ RequiredFieldsValid(required)
    /\ validate_reference_property_required(required)
    /\ validate_count_range(required)

\* the Field constraints of Rule
RuleFieldsValid(rule) ==
    /\ rule.id # << >> /\ rule.name # << >> /\ rule.message # << >>
    /\ rule.resource_type # PyStr(<< >>)
    /\ rule.resource_types # None => Len(Val(rule.resource_types)) >= 1
    /\ rule.property # PyStr(<< >>)
    /\ rule.has_keys # None => Len(Val(rule.has_keys)) >= 1
    /\ rule.requires_resources # None =>
          /\ Len(Val(rule.requires_resources)) >= 1
          /\ \A i \in 1..Len(Val(rule.requires_resources)) :
                RequiredResourceAccepted(Val(rule.requires_resources)[i])

validate_severity(rule) == rule.severity \in {"error", "warning"}

validate_property_path_format(rule) ==
    rule.property # None => validate_property_path(Val(rule.property))

\* a variant without the duplicate check
ExclusivityAllowingDuplicates(rule) ==
    LET has_single == rule.resource_type # None
        has_multiple == rule.resource_types # None IN
    /\ has_single \/ has_multiple
    /\ ~ (has_single /\ has_multiple)
    /\ has_multiple => Len(Val(rule.resource_types)) # 0

validate_resource_type_exclusivity(rule) ==
    LET has_single == rule.resource_type # None
        has_multiple == rule.resource_types # None
        types == Val(rule.resource_types) IN
    /\ has_single \/ has_multiple
    /\ ~ (has_single /\ has_multiple)
    /\ has_multiple =>
          /\ Len(types) # 0
          /\ Len(types) = Cardinality({types[i] : i \in 1..Len(types)})

\* the operators the resource_forbidden branch looks at
ForbiddenBranchOperators(rule) ==
    <<rule.equals, rule.greater_than, rule.greater_than_or_equal, rule.less_than,
      rule.less_than_or_equal, rule.contains, rule.in_list, rule.regex_match>>
\* the operators the other branches look at
Operators(rule) ==
    ForbiddenBranchOperators(rule) \o <<rule.has_keys, rule.is_not_empty>>
AnySet(values) == \E i \in 1..Len(values) : values[i] # None

\* a variant that accepts a property with any number of operators above zero
ComparisonOperatorAtLeastOne(rule) ==
    IF rule.resource_forbidden = PyBool(TRUE)
    THEN /\ rule.property = None
         /\ ~AnySet(ForbiddenBranchOperators(rule))
         /\ rule.requires_resources = None
    ELSE IF /\ rule.requires_resources # None
            /\ Len(Val(rule.requires_resources)) > 0
            /\ rule.property = None
    THEN ~AnySet(Operators(rule))
    ELSE /\ rule.property # None
         /\ AnySet(Operators(rule))

\* a variant that counts is_not_empty only when the flag is true
ComparisonOperatorTruthyFlag(rule) ==
    IF rule.resource_forbidden = PyBool(TRUE)
    THEN /\ rule.property = None
         /\ ~AnySet(ForbiddenBranchOperators(rule))
         /\ rule.requires_resources = None
    ELSE IF /\ rule.requires_resources # None
            /\ Len(Val(rule.requires_resources)) > 0
            /\ rule.property = None
    THEN ~AnySet(Operators(rule))
    ELSE /\ rule.property # None
         /\ Cardinality({i \in 1..Len(Operators(rule)) :
                            /\ Operators(rule)[i] # None
                            /\ i = 10 => Truthy(Operators(rule)[i])}) = 1

validate_comparison_operator(rule) ==
    IF rule.resource_forbidden = PyBool(TRUE)
    THEN /\ rule.property = None
         /\ ~AnySet(ForbiddenBranchOperators(rule))
         /\ rule.requires_resources = None
    ELSE IF /\ rule.requires_resources # None
            /\ Len(Val(rule.requires_resources)) > 0
            /\ rule.property = None
    THEN ~AnySet(Operators(rule))
    ELSE /\ rule.property # None
         /\ Cardinality({i \in 1..Len(Operators(rule)) : Operators(rule)[i] # None}) = 1

\* Rule(**fields) returns: the field constraints and validators, then the
\* model validators
RuleAccepted(rule) ==
    /\ RuleFieldsValid(rule)
    /\ validate_severity(rule)
    /\ validate_property_path_format(rule)
    /\ validate_resource_type_exclusivity(rule)
    /\ validate_comparison_operator(rule)

(***************************************************************************)
(* Inputs of Rule construction                                             *)
(***************************************************************************)
MaxOperators == 2

\* the keyword arguments of the ten operators, each with one value of its type
OperatorSamples ==
    <<PyBool(TRUE), PyInt(0), PyInt(1), PyInt(2), PyInt(3), PyStr(StrA),
      PyList(<<PyStr(StrA)>>), PyStr(<<"^", "a">>), PyList(<<PyStr(<<"k">>)>>),
      PyBool(FALSE)>>
Given(chosen, i) == IF i \in chosen THEN OperatorSamples[i] ELSE None
WithOperators(rule, chosen) ==
    [rule EXCEPT !.equals = Given(chosen, 1), !.greater_than = Given(chosen, 2),
                 !.greater_than_or_equal = Given(chosen, 3),
                 !.less_than = Given(chosen, 4),
                 !.less_than_or_equal = Given(chosen, 5),
                 !.contains = Given(chosen, 6), !.in_list = Given(chosen, 7),
                 !.regex_match = Given(chosen, 8), !.has_keys = Given(chosen, 9),
                 !.is_not_empty = Given(chosen, 10)]
OperatorChoices == {chosen \in SUBSET (1..10) : Cardinality(chosen) <= MaxOperators}

\* <<resource_type, resource_types>>
TypeArguments ==
    { <<PyStr(TypeB), None>>, <<None, PyList(<<PyStr(TypeB)>>)>>,
      <<None, PyList(<<PyStr(TypeB), PyStr(TypeV)>>)>>,
      <<PyStr(TypeB), PyList(<<PyStr(TypeV)>>)>>, <<None, None>>,
      <<None, PyList(<< >>)>>,
      <<None, PyList(<<PyStr(TypeB), PyStr(TypeV), PyStr(TypeB)>>)>> }

RequiresArguments ==
    { None, PyList(<< >>),
      PyList(<<[BlankRequired EXCEPT !.resource_type = TypeV]>>) }

\* the keyword arguments of Rule(...)
RuleArguments ==
    { WithOperators([BlankRule EXCEPT !.resource_type = types[1],
                                      !.resource_types = types[2],
                                      !.property = property,
                                      !.resource_forbidden = forbidden,
                                      !.requires_resources = requires], chosen) :
        types \in TypeArguments, property \in {None, PyStr(KeyP)},
        forbidden \in {None, PyBool(FALSE), PyBool(TRUE)},
        requires \in RequiresArguments, chosen \in OperatorChoices }

InitConstruct ==
    /\ op = "init"
    /\ rules \in {<<r>> : r \in RuleArguments}
    /\ resources = << >>
    /\ plan_data = None
    /\ obj = None
    /\ path = << >>
    /\ violations = << >>
    /\ result = None
    /\ raised = "none"
    /\ rule_files = << >>
    /\ strict = FALSE
    /\ references = << >>
    /\ constants = << >>
    /\ calls = 1

\* a call Rule(**arguments): it returns the rule or raises ValidationError
Construct ==
    /\ op = "init"
    /\ op' = "construct"
    /\ raised' = IF RuleAccepted(rules[1]) THEN "none" ELSE "ValidationError"
    /\ UNCHANGED <<rules, resources, plan_data, obj, path, violations, result, rule_files, strict,
                 references, constants, calls>>

NextConstruct == Construct

ConstructSpec == InitConstruct /\ [][NextConstruct]_vars

\* the keyword arguments of RequiredResource(...), inside a rule that is
\* otherwise valid
RequiredArguments ==
    { [BlankRequired EXCEPT !.resource_type = TypeV, !.relationship = rel,
                            !.reference_property = ref,
                            !.min_count = lo, !.max_count = hi] :
        rel \in {"same_name_suffix", "referenced_by_primary"},
        ref \in {None, PyStr(KeyBucket)},
        lo \in (0 - 1)..MaxCount,
        hi \in {None} \cup {PyInt(n) : n \in (0 - 1)..(MaxCount + 1)} }

InitRequired ==
    /\ op = "init"
    /\ rules \in {<<CrossRule(<<q>>)>> : q \in RequiredArguments}
    /\ resources = << >>
    /\ plan_data = None
    /\ obj = None
    /\ path = << >>
    /\ violations = << >>
    /\ result = None
    /\ raised = "none"
    /\ rule_files = << >>
    /\ strict = FALSE
    /\ references = << >>
    /\ constants = << >>
    /\ calls = 1

RequiredSpec == InitRequired /\ [][NextConstruct]_vars

(***************************************************************************)
(* berm.loaders.rules: load_rules                                          *)
(*                                                                         *)
(* A rule file is [name, state, data]: state is "unsafe" when              *)
(* validate_safe_path or validate_file_size raises, "notjson" when         *)
(* json.load raises JSONDecodeError, "deep" when validate_json_depth       *)
(* raises, and "ok" when data holds the keyword arguments read from it.    *)
(***************************************************************************)
\* the order of the code points of digits and letters
CodeOrder == Digits \o UpperCase \o LowerCase
Ord(c) == CHOOSE i \in 1..Len(CodeOrder) : CodeOrder[i] = c
\* a < b on str
RECURSIVE StrLess(_, _)
StrLess(a, b) ==
    IF b = << >> THEN FALSE
    ELSE IF a = << >> THEN TRUE
    ELSE IF Head(a) = Head(b) THEN StrLess(Tail(a), Tail(b))
    ELSE Ord(Head(a)) < Ord(Head(b))

\* rules.sort(key=lambda r: r.id): a stable sort
InsertById(rule, sorted) ==
    LET later == {i \in 1..Len(sorted) : StrLess(rule.id, sorted[i].id)}
        at == IF later = {} THEN Len(sorted) + 1
              ELSE CHOOSE i \in later : \A j \in later : i <= j IN
    SubSeq(sorted, 1, at - 1) \o <<rule>> \o SubSeq(sorted, at, Len(sorted))
RECURSIVE SortById(_)
SortById(rs) ==
    IF rs = << >> THEN << >>
    ELSE InsertById(rs[Len(rs)], SortById(SubSeq(rs, 1, Len(rs) - 1)))

\* the entry the loop appends to errors for a file, << >> when it loads
FileError(file) ==
    CASE file.state = "unsafe" -> file.name \o <<": Security validation failed - ">>
      [] file.state = "notjson" -> file.name \o <<": Invalid JSON - ">>
      [] file.state = "deep" -> file.name \o <<": Unexpected error - ">>
      [] ~RuleAccepted(file.data) -> file.name \o <<": Validation failed - ">>
      [] OTHER -> << >>

RECURSIVE LoadErrors(_)
LoadErrors(files) ==
    IF files = << >> THEN << >>
    ELSE (IF FileError(Head(files)) = << >> THEN << >> ELSE <<FileError(Head(files))>>)
         \o LoadErrors(Tail(files))
RECURSIVE LoadedRules(_)
LoadedRules(files) ==
    IF files = << >> THEN << >>
    ELSE (IF FileError(Head(files)) = << >> THEN <<Head(files).data>> ELSE << >>)
         \o LoadedRules(Tail(files))
RECURSIVE ErrorLines(_)
ErrorLines(errors) ==
    IF errors = << >> THEN << >>
    ELSE <<"\n">> \o Head(errors) \o ErrorLines(Tail(errors))

\* a variant that drops the files that fail and returns the others
LoadRulesSkippingBad(files) ==
    IF files = << >>
    THEN [raised |-> "RuleLoadError", rules |-> << >>,
          message |-> <<"No rule files (*.json) found in: ">>]
    ELSE [raised |-> "none", rules |-> SortById(LoadedRules(files)), message |-> << >>]

\* load_rules(rules_path) over the files rglob found: the rules it returns,
\* or the exception it raises with its message
load_rules(files) ==
    IF files = << >>
    THEN [raised |-> "RuleLoadError", rules |-> << >>,
          message |-> <<"No rule files (*.json) found in: ">>]
    ELSE IF LoadErrors(files) # << >>
    THEN [raised |-> "RuleLoadError", rules |-> << >>,
          message |-> <<"Failed to load one or more rules:">>
                      \o ErrorLines(LoadErrors(files))]
    ELSE [raised |-> "none", rules |-> SortById(LoadedRules(files)), message |-> << >>]

(***************************************************************************)
(* berm.loaders.terraform: load_terraform_plan                             *)
(*                                                                         *)
(* The content of the plan file is <<"unsafe">> when validate_safe_path or *)
(* validate_file_size raises, <<"notjson">> when json.load raises, and the *)
(* parsed document otherwise.                                              *)
(***************************************************************************)
PlanUnsafe == <<"unsafe">>
PlanNotJson == <<"notjson">>

\* a variant that skips deleted changes only
NormalizedChangeKeepingNoOp(change) ==
    IF ~IsDict(change) THEN << >>
    ELSE LET inner == DictGetOr(change, <<"change">>, PyDict(<< >>)) IN
    IF ~IsDict(inner) THEN << >>
    ELSE LET actions == DictGetOr(inner, <<"actions">>, PyList(<< >>))
             after == DictGetOr(inner, <<"after">>, PyDict(<< >>))
             before == DictGetOr(inner, <<"before">>, PyDict(<< >>))
             values == IF after # None THEN after
                       ELSE IF before # None THEN before ELSE PyDict(<< >>) IN
    IF ~Truthy(actions) \/ actions = PyList(<<PyStr(<<"delete">>)>>)
    THEN << >>
    ELSE <<[address |-> Val(DictGetOr(change, <<"address">>, PyStr(<< >>))),
            type |-> Val(DictGetOr(change, <<"type">>, PyStr(<< >>))),
            name |-> Val(DictGetOr(change, <<"name">>, PyStr(<< >>))),
            values |-> values]>>

\* the normalized resource of one entry of resource_changes, << >> when the
\* loop skips the entry
NormalizedChange(change) ==
    IF ~IsDict(change) THEN << >>
    ELSE LET inner == DictGetOr(change, <<"change">>, PyDict(<< >>)) IN
    IF ~IsDict(inner) THEN << >>          \* .get raises, the loop continues
    ELSE LET actions == DictGetOr(inner, <<"actions">>, PyList(<< >>))
             after == DictGetOr(inner, <<"after">>, PyDict(<< >>))
             before == DictGetOr(inner, <<"before">>, PyDict(<< >>))
             values == IF after # None THEN after
                       ELSE IF before # None THEN before ELSE PyDict(<< >>) IN
    IF \/ ~Truthy(actions)
       \/ actions = PyList(<<PyStr(<<"delete">>)>>)
       \/ actions = PyList(<<PyStr(<<"no-op">>)>>)
    THEN << >>
    ELSE <<[address |-> Val(DictGetOr(change, <<"address">>, PyStr(<< >>))),
            type |-> Val(DictGetOr(change, <<"type">>, PyStr(<< >>))),
            name |-> Val(DictGetOr(change, <<"name">>, PyStr(<< >>))),
            values |-> values]>>

RECURSIVE NormalizedChanges(_)
NormalizedChanges(changes) ==
    IF changes = << >> THEN << >>
    ELSE NormalizedChange(Head(changes)) \o NormalizedChanges(Tail(changes))

load_terraform_plan(content) ==
    IF content \in {PlanUnsafe, PlanNotJson} \/ ~IsDict(content)
    THEN [raised |-> "TerraformPlanLoadError", resources |-> << >>]
    ELSE LET resource_changes ==
                 DictGetOr(content, <<"resource_changes">>, PyList(<< >>)) IN
    IF ~IsList(resource_changes)
    THEN [raised |-> "TerraformPlanLoadError", resources |-> << >>]
    ELSE [raised |-> "none", resources |-> NormalizedChanges(Val(resource_changes))]

(***************************************************************************)
(* berm.cli: run_check                                                     *)
(***************************************************************************)
\* the exception the handlers of run_check catch, "none" without one
RunRaises(files, content) ==
    IF load_rules(files).raised # "none" THEN load_rules(files).raised
    ELSE IF load_terraform_plan(content).raised # "none"
    THEN load_terraform_plan(content).raised
    ELSE EvaluateAllRaises(load_rules(files).rules,
                           load_terraform_plan(content).resources)

\* the exit code run_check derives from the violations
ExitCode(found, strict_mode) ==
    IF \E i \in 1..Len(found) : found[i].severity = "error" THEN 1
    ELSE IF (\E i \in 1..Len(found) : found[i].severity = "warning") /\ strict_mode THEN 1
    ELSE 0

\* run_check(plan_file, rules_dir, format, strict, verbose): its exit code
run_check(files, content, strict_mode) ==
    IF RunRaises(files, content) # "none" THEN 2
    ELSE ExitCode(evaluate_all(load_rules(files).rules,
                               load_terraform_plan(content).resources), strict_mode)

(***************************************************************************)
(* Inputs of a check run: a rules directory, a plan file, the strict flag  *)
(***************************************************************************)
MaxFiles == 2

RuleFile(name, state, data) == [name |-> name, state |-> state, data |-> data]
NamedRule(id, severity, rule) == [rule EXCEPT !.id = id, !.severity = severity]

\* two rules that load, under ids out of order, one of each severity; a rule
\* that loads and whose pattern does not compile; four files that fail
RuleFiles ==
    { RuleFile(<<"1.json">>, "ok",
               NamedRule(<<"b">>, "error",
                         [PropertyRule(TypeB) EXCEPT !.equals = PyBool(TRUE)])),
      RuleFile(<<"2.json">>, "ok",
               NamedRule(<<"a">>, "warning",
                         [PropertyRule(TypeB) EXCEPT !.is_not_empty = PyBool(TRUE)])),
      RuleFile(<<"3.json">>, "ok",
               NamedRule(<<"B">>, "warning",
                         [PropertyRule(TypeB) EXCEPT !.regex_match = PyStr(HugeRepeat)])),
      RuleFile(<<"4.json">>, "ok", NamedRule(<<"c">>, "error", PropertyRule(TypeB))),
      RuleFile(<<"5.json">>, "notjson", BlankRule),
      RuleFile(<<"6.json">>, "unsafe", BlankRule),
      RuleFile(<<"7.json">>, "deep", BlankRule) }

RECURSIVE RuleFileLists(_)
RuleFileLists(n) ==
    IF n = 0 THEN {<< >>}
    ELSE RuleFileLists(n - 1)
         \cup {Append(l, f) : l \in {m \in RuleFileLists(n - 1) : Len(m) = n - 1},
                              f \in RuleFiles}

Change(address, type, name, actions, after, before) ==
    PyDict(<< <<<<"address">>, PyStr(address)>>, <<<<"type">>, PyStr(type)>>,
              <<<<"name">>, PyStr(name)>>,
              <<<<"change">>, PyDict(<< <<<<"actions">>, PyList(actions)>>,
                                        <<<<"after">>, after>>,
                                        <<<<"before">>, before>> >>)>> >>)
PlanOf(changes) == PyDict(<< <<<<"resource_changes">>, changes>> >>)
Values(v) == PyDict(<< <<KeyP, v>> >>)

PlanFiles ==
    { PlanUnsafe, PlanNotJson, PyList(<< >>), PlanOf(PyStr(<<"x">>)), PyDict(<< >>),
      PlanOf(PyList(<<Change(AddrBX, TypeB, NameX, <<PyStr(<<"create">>)>>,
                             Values(PyBool(TRUE)), None)>>)),
      PlanOf(PyList(<<Change(AddrBX, TypeB, NameX, <<PyStr(<<"update">>)>>,
                             Values(PyBool(FALSE)), Values(PyBool(TRUE)))>>)),
      PlanOf(PyList(<<Change(AddrBX, TypeB, NameX, <<PyStr(<<"delete">>)>>,
                             None, Values(PyBool(FALSE))),
                      Change(AddrBY, TypeB, NameY, <<PyStr(<<"create">>)>>,
                             Values(PyStr(<< >>)), None)>>)) }

InitRun ==
    /\ op = "init"
    /\ rules = << >>
    /\ resources = << >>
    /\ plan_data \in PlanFiles
    /\ obj = None
    /\ path = << >>
    /\ violations = << >>
    /\ result = None
    /\ raised = "none"
    /\ rule_files \in {l \in RuleFileLists(MaxFiles) :
                          \A i, j \in 1..Len(l) : l[i] = l[j] => i = j}
    /\ strict \in BOOLEAN
    /\ references = << >>
    /\ constants = << >>
    /\ calls = 1

\* a call load_rules(rules_dir): result holds the message of the exception
LoadRules ==
    /\ op = "init"
    /\ op' = "load"
    /\ rules' = load_rules(rule_files).rules
    /\ raised' = load_rules(rule_files).raised
    /\ result' = PyStr(load_rules(rule_files).message)
    /\ UNCHANGED <<resources, plan_data, obj, path, violations, rule_files, strict,
                 references, constants, calls>>

\* a call run_check(plan_file, rules_dir, format, strict, verbose): result
\* holds the exit code, the other variables what the run built on its way
RunCheck ==
    /\ op = "init"
    /\ op' = "run"
    /\ rules' = load_rules(rule_files).rules
    /\ resources' = IF load_rules(rule_files).raised = "none"
                    THEN load_terraform_plan(plan_data).resources ELSE << >>
    /\ raised' = RunRaises(rule_files, plan_data)
    /\ violations' = IF raised' = "none" THEN evaluate_all(rules', resources')
                     ELSE << >>
    /\ result' = PyInt(run_check(rule_files, plan_data, strict))
    /\ UNCHANGED <<plan_data, obj, path, rule_files, strict,
                   references, constants, calls>>

NextRun == LoadRules \/ RunCheck

RunSpec == InitRun /\ [][NextRun]_vars

(***************************************************************************)
(* Successive calls on one SimpleEvaluator and one CrossResourceEvaluator  *)
(***************************************************************************)
MaxCalls == 2

SessionRules ==
    { CrossRule(<<[BlankRequired EXCEPT !.resource_type = TypeV,
                                        !.relationship = "referenced_by_primary",
                                        !.reference_property = PyStr(KeyBucket)]>>),
      CrossRule(<<[BlankRequired EXCEPT !.resource_type = TypeV]>>),
      [PropertyRule(TypeB) EXCEPT !.equals = PyBool(TRUE)],
      [BlankRule EXCEPT !.resource_type = PyStr(TypeV),
                        !.resource_forbidden = PyBool(TRUE)] }

SessionResources ==
    LET bx == Resource(TypeB, NameX, PyDict(<< <<KeyBucket, PyStr(StrK)>>,
                                               <<KeyP, PyBool(FALSE)>> >>))
        vx == Resource(TypeV, NameX, PyDict(<< >>))
        vy == Resource(TypeV, NameY, PyDict(<< <<KeyP, PyBool(TRUE)>> >>)) IN
    { << >>, <<bx>>, <<bx, vx>>, <<vy, bx>>, <<bx, vx, vy>> }

SessionPlans ==
    { None, PyDict(<< >>),
      Plan(<<ConfigResource(AddrVX, ReferenceTo(KeyBucket, AddrBX))>>),
      Plan(<<ConfigResource(AddrVY, ReferenceTo(KeyBucket, AddrBX))>>),
      Plan(<<ConfigResource(AddrVY, ConstantOf(KeyBucket, PyStr(StrK)))>>) }

InitSession ==
    /\ op = "init"
    /\ rules \in {<<r>> : r \in SessionRules}
    /\ resources \in SessionResources
    /\ plan_data \in SessionPlans
    /\ obj = None
    /\ path = << >>
    /\ violations = << >>
    /\ result = None
    /\ raised = "none"
    /\ rule_files = << >>
    /\ strict = FALSE
    /\ references = << >>
    /\ constants = << >>
    /\ calls = 1

\* the caller prepares the arguments of the next call on the same instances
NextCall ==
    /\ op \in {"simple", "cross"}
    /\ calls < MaxCalls
    /\ op' = "init"
    /\ calls' = calls + 1
    /\ rules' \in {<<r>> : r \in SessionRules}
    /\ resources' \in SessionResources
    /\ plan_data' \in SessionPlans
    /\ violations' = << >>
    /\ raised' = "none"
    /\ UNCHANGED <<obj, path, result, rule_files, strict, references, constants>>

NextSession == SimpleEvaluate \/ CrossEvaluate \/ NextCall

SessionSpec == InitSession /\ [][NextSession]_vars

(***************************************************************************)
(* Claims about the cross-resource evaluator                               *)
(***************************************************************************)
TheRule == rules[1]
RequiredSpecs == Val(TheRule.requires_resources)
IsCrossCall == op = "cross" /\ Truthy(TheRule.requires_resources)
\* the primary resources of the call, as a set
PrimarySet == {resources[i] : i \in {j \in 1..Len(resources) :
                                        TypeMatches(TheRule, resources[j])}}
ResourceSet == {resources[i] : i \in 1..Len(resources)}

\* the related resources the evaluator finds for a primary and a spec
RelatedOf(primary, req) ==
    _find_related_resources(primary, req, _build_resource_index(resources),
        IF Truthy(plan_data) THEN extract_resource_references(plan_data) ELSE << >>,
        IF Truthy(plan_data) THEN extract_constant_values(plan_data) ELSE << >>)

\* msg holds the literal lit, then the text, then the literal next
FollowedBy(msg, lit, text, next) ==
    \E i \in 1..Len(msg) :
        /\ msg[i] = lit
        /\ i + Len(text) + 1 <= Len(msg)
        /\ SubSeq(msg, i + 1, i + Len(text)) = text
        /\ msg[i + Len(text) + 1] = next

IsMissingOf(v, req) ==
    FollowedBy(v.message, "Missing required ", req.resource_type, " (found ")
IsTooManyOf(v, req) ==
    FollowedBy(v.message, "Too many ", req.resource_type, " (found ")
IsConditionOn(v, related) ==
    FollowedBy(v.message, "Related resource ", related.address, " fails condition: ")
IsConditionOf(v, req) ==
    \E r \in ResourceSet : r.type = req.resource_type /\ IsConditionOn(v, r)

Count(seq, P(_)) == Cardinality({i \in 1..Len(seq) : P(seq[i])})

\* the violations of one primary/spec pair (the specs of a rule of the model
\* name different target types)
PairViolations(primary, req) ==
    SelectSeq(violations, LAMBDA v :
        /\ v.resource_name = primary.address
        /\ IsMissingOf(v, req) \/ IsTooManyOf(v, req) \/ IsConditionOf(v, req))

ConditionItems(req) == IF Truthy(req.conditions) THEN Val(req.conditions) ELSE << >>
\* the (related resource, condition) pairs whose resolved value is not the
\* expected literal
Mismatches(related, req) ==
    {pair \in (1..Len(related)) \X (1..Len(ConditionItems(req))) :
        ~PyEq(get_nested_property(related[pair[1]].values,
                                  ConditionItems(req)[pair[2]][1]),
              ConditionItems(req)[pair[2]][2])}

\* C3: a primary/spec pair with fewer related resources than min_count
\* yields exactly one violation, the "Missing required <type> (found k, need
\* min_count)" one, and no condition or "Too many" violation, whatever the
\* spec's conditions.
C3_MissingShortCircuits ==
    IsCrossCall =>
        \A primary \in PrimarySet :
        \A j \in 1..Len(RequiredSpecs) :
            LET req == RequiredSpecs[j]
                found == Len(RelatedOf(primary, req))
                mine == PairViolations(primary, req) IN
            found < req.min_count =>
                /\ Len(mine) = 1
                /\ IsMissingOf(mine[1], req)
                /\ FollowedBy(mine[1].message, " (found ", IntToStr(found), ", need ")
                /\ FollowedBy(mine[1].message, ", need ", IntToStr(req.min_count), ")")
                /\ ~IsConditionOf(mine[1], req)
                /\ ~IsTooManyOf(mine[1], req)

\* one related resource that fails a condition, where two are needed
C3_Witness ==
    /\ IsCrossCall
    /\ \E primary \in PrimarySet :
          LET req == RequiredSpecs[1] IN
          /\ Len(RequiredSpecs) = 1
          /\ req.min_count = 2
          /\ Len(RelatedOf(primary, req)) = 1
          /\ Mismatches(RelatedOf(primary, req), req) # {}
          /\ Len(PairViolations(primary, req)) = 1

\* C4: a pair with at least min_count related resources gets exactly one
\* "Too many <type> (found k, max m)" violation when max_count is set and
\* k > max_count, and none otherwise; the conditions are checked either way,
\* so it gets one condition violation per mismatching (related, condition)
\* pair with or without the "Too many" violation.
C4_TooManyAndConditions ==
    IsCrossCall =>
        \A primary \in PrimarySet :
        \A j \in 1..Len(RequiredSpecs) :
            LET req == RequiredSpecs[j]
                related == RelatedOf(primary, req)
                found == Len(related)
                mine == PairViolations(primary, req)
                over == req.max_count # None /\ found > Val(req.max_count)
                tooMany == SelectSeq(mine, LAMBDA v : IsTooManyOf(v, req)) IN
            found >= req.min_count =>
                /\ Len(tooMany) = IF over THEN 1 ELSE 0
                /\ over =>
                      /\ FollowedBy(tooMany[1].message, " (found ", IntToStr(found), ", max ")
                      /\ FollowedBy(tooMany[1].message, ", max ",
                                    IntToStr(Val(req.max_count)), ")")
                /\ Count(mine, LAMBDA v : IsConditionOf(v, req))
                       = Cardinality(Mismatches(related, req))
                /\ Count(mine, LAMBDA v : IsMissingOf(v, req)) = 0

\* two related resources against max_count = 1, one of them failing a condition
C4_Witness ==
    /\ IsCrossCall
    /\ \E primary \in PrimarySet :
          LET req == RequiredSpecs[1]
              mine == PairViolations(primary, req) IN
          /\ req.max_count = PyInt(1)
          /\ Len(RelatedOf(primary, req)) = 2
          /\ Count(mine, LAMBDA v : IsTooManyOf(v, req)) = 1
          /\ Count(mine, LAMBDA v : IsConditionOf(v, req)) >= 1

\* C5: once the min_count check passes, each related resource and each
\* declared condition give exactly one violation when the value the resolver
\* returns for the path is not equal to the expected literal, and none when
\* it is; equality is Python's ==, which coerces no string (the string
\* "true" is not the boolean True).
C5_OnePerMismatch ==
    IsCrossCall =>
        \A primary \in PrimarySet :
        \A j \in 1..Len(RequiredSpecs) :
            LET req == RequiredSpecs[j]
                related == RelatedOf(primary, req) IN
            Len(related) >= req.min_count =>
                \A i \in 1..Len(related) :
                \A c \in 1..Len(ConditionItems(req)) :
                    Count(violations, LAMBDA v :
                        /\ v.resource_name = primary.address
                        /\ IsConditionOn(v, related[i])
                        /\ FollowedBy(v.message, " fails condition: ",
                                      ConditionItems(req)[c][1], " is "))
                    = IF <<i, c>> \in Mismatches(related, req) THEN 1 ELSE 0

\* a related resource whose s is the string "true" where True is expected
C5_Witness ==
    /\ IsCrossCall
    /\ \E primary \in PrimarySet :
          LET req == RequiredSpecs[1]
              related == RelatedOf(primary, req) IN
          /\ Truthy(req.conditions)
          /\ Len(related) >= req.min_count
          /\ \E i \in 1..Len(related) :
                /\ DictGet(related[i].values, KeyS) = PyStr(StrTrue)
                /\ DictGet(req.conditions, KeyS) = PyBool(TRUE)
                /\ \E k \in 1..Len(violations) :
                      /\ IsConditionOn(violations[k], related[i])
                      /\ FollowedBy(violations[k].message, " fails condition: ",
                                    KeyS, " is ")

ReferenceMap ==
    IF Truthy(plan_data) THEN extract_resource_references(plan_data) ELSE << >>
ConstantMap ==
    IF Truthy(plan_data) THEN extract_constant_values(plan_data) ELSE << >>
\* the dependents the ReferenceMap lists for an address
Dependents(address) ==
    IF MapHas(ReferenceMap, address) THEN MapGet(ReferenceMap, address) ELSE << >>
\* the ConstantMap entry of an address for a property, None without one
ConstantEntry(address, property) ==
    IF MapHas(ConstantMap, address)
    THEN DictGet(MapGet(ConstantMap, address), property) ELSE None

SeqToSet(seq) == {seq[i] : i \in 1..Len(seq)}
NoDuplicates(seq) == Cardinality(SeqToSet(seq)) = Len(seq)

\* the value of the first of bucket, id, name, identifier, arn that the values
\* hold (a key with a value other than null), None without one
FirstPresentIdentifier(resource) ==
    LET present == {i \in 1..Len(IdentifierProps) :
                       DictGet(resource.values, IdentifierProps[i]) # None} IN
    IF present = {} THEN None
    ELSE DictGet(resource.values,
                 IdentifierProps[CHOOSE i \in present : \A j \in present : i <= j])

\* the value of the first of them that is a non-empty string, else the address
FirstStringIdentifier(resource) ==
    LET usable == {i \in 1..Len(IdentifierProps) :
                      /\ IsStr(DictGet(resource.values, IdentifierProps[i]))
                      /\ Val(DictGet(resource.values, IdentifierProps[i])) # << >>} IN
    IF usable = {} THEN PyStr(resource.address)
    ELSE DictGet(resource.values,
                 IdentifierProps[CHOOSE i \in usable : \A j \in usable : i <= j])

\* (a) the target-type resources listed among the dependents of the primary
ByReference(primary, req) ==
    {r \in ResourceSet : /\ r.type = req.resource_type
                         /\ InSeq(r.address, Dependents(primary.address))}
\* (b) the target-type resources whose constant for reference_property is
\* the identifier, or is or contains the primary's address
ByConstant(primary, req, identifier) ==
    {r \in ResourceSet :
        /\ r.type = req.resource_type
        /\ LET c == ConstantEntry(r.address, Val(req.reference_property)) IN
           /\ IsStr(c)
           /\ \/ c = identifier
              \/ Val(c) = primary.address
              \/ Contains(Val(c), primary.address)}

\* the count a "Missing required" violation of the pair reports is found
ReportsFound(primary, req, found) ==
    found < req.min_count =>
        /\ Len(PairViolations(primary, req)) = 1
        /\ FollowedBy(PairViolations(primary, req)[1].message,
                      " (found ", IntToStr(found), ", need ")

\* C6 as stated: under referenced_by_primary the related resources are the
\* union of (a) and (b), each once, the identifier being the first present
\* of bucket, id, name, identifier, arn.
C6_FirstPresentIdentifier ==
    IsCrossCall =>
        \A primary \in PrimarySet :
            LET req == RequiredSpecs[1]
                related == RelatedOf(primary, req) IN
            req.relationship = "referenced_by_primary" =>
                SeqToSet(related) =
                    ByReference(primary, req)
                    \cup ByConstant(primary, req, FirstPresentIdentifier(primary))

\* C6: under referenced_by_primary the related resources are the union of
\* (a) the target-type resources listed among the dependents of the
\* primary's address and (b) the target-type resources whose constant for
\* reference_property equals the primary's identifier or equals or contains
\* its address, each counted once; the identifier is the value of the first
\* of bucket, id, name, identifier, arn that is a non-empty string, and the
\* address when there is none.
C6_ReferencedByPrimary ==
    IsCrossCall =>
        \A primary \in PrimarySet :
            LET req == RequiredSpecs[1]
                related == RelatedOf(primary, req)
                union == ByReference(primary, req)
                         \cup ByConstant(primary, req, FirstStringIdentifier(primary)) IN
            req.relationship = "referenced_by_primary" =>
                /\ SeqToSet(related) = union
                /\ NoDuplicates(related)
                /\ ReportsFound(primary, req, Cardinality(union))

\* a primary with an empty bucket name and the id "k", a versioning resource
\* related to it by the constant "k" alone, another by reference and constant
C6_Witness ==
    /\ IsCrossCall
    /\ RequiredSpecs[1].relationship = "referenced_by_primary"
    /\ \E primary \in PrimarySet :
          LET req == RequiredSpecs[1]
              related == RelatedOf(primary, req) IN
          /\ DictGet(primary.values, KeyBucket) = PyStr(<< >>)
          /\ Len(related) = 2
          /\ \E r \in SeqToSet(related) :
                /\ r \notin ByReference(primary, req)
                /\ ConstantEntry(r.address, KeyBucket) = PyStr(StrK)
          /\ \E r \in SeqToSet(related) :
                /\ r \in ByReference(primary, req)
                /\ ConstantEntry(r.address, KeyBucket) = PyStr(StrK)
          /\ req.min_count > 2
          /\ Len(PairViolations(primary, req)) = 1

\* C7: under references_primary the related resources are the target-type
\* resources whose own dependents list in the ReferenceMap contains the
\* primary's address, each once; no resource of another type and no
\* target-type resource without that edge is related.
C7_ReferencesPrimary ==
    IsCrossCall =>
        \A primary \in PrimarySet :
            LET req == RequiredSpecs[1]
                related == RelatedOf(primary, req)
                pointedAt == {r \in ResourceSet :
                                 /\ r.type = req.resource_type
                                 /\ InSeq(primary.address, Dependents(r.address))} IN
            req.relationship = "references_primary" =>
                /\ SeqToSet(related) = pointedAt
                /\ NoDuplicates(related)
                /\ ReportsFound(primary, req, Cardinality(pointedAt))

\* b.x points at v.x; v.y, which points at b.x, is present and not related
C7_Witness ==
    /\ IsCrossCall
    /\ RequiredSpecs[1].relationship = "references_primary"
    /\ \E primary \in PrimarySet :
          LET req == RequiredSpecs[1]
              related == RelatedOf(primary, req) IN
          /\ Len(related) = 1
          /\ related[1].address = AddrVX
          /\ \E r \in ResourceSet :
                r.address = AddrVY /\ InSeq(AddrVY, Dependents(primary.address))
          /\ req.min_count > 1
          /\ Len(PairViolations(primary, req)) = 1

(***************************************************************************)
(* Claims about the dispatch of a check run and about absent properties    *)
(***************************************************************************)
\* C2 as stated: the output of evaluate_all holds, for every rule, the
\* violations of the single-resource evaluator and those of the
\* cross-resource evaluator for that rule.
C2_DispatchesBothEvaluators ==
    op = "check" =>
        \A i \in 1..Len(rules) :
            /\ \A v \in SeqToSet(evaluate(rules[i], resources)) :
                   InSeq(v, violations)
            /\ \A v \in SeqToSet(cross_evaluate(rules[i], resources, plan_data)) :
                   InSeq(v, violations)

\* the value tree holds something, null included, at the end of the path
RECURSIVE PresentAt(_, _)
PresentAt(current, parts) ==
    IF parts = << >> THEN TRUE
    ELSE IF IsDict(current)
    THEN DictHas(current, Head(parts))
         /\ PresentAt(DictGet(current, Head(parts)), Tail(parts))
    ELSE IF IsList(current)
    THEN /\ PyIntParse(Head(parts)).ok
         /\ PyIntParse(Head(parts)).v \in 0..(Len(Val(current)) - 1)
         /\ PresentAt(Val(current)[PyIntParse(Head(parts)).v + 1], Tail(parts))
    ELSE FALSE

\* C9 as stated: a resource whose property is present, with the value null
\* or any other, is never reported as "property not found"; its value goes
\* to the comparator.
C9_PresentNullIsCompared ==
    (op = "simple" /\ rules[1].property # None) =>
        \A r \in ResourceSet :
            PresentAt(r.values, Split(Val(rules[1].property), ".")) =>
                ~ \E k \in 1..Len(violations) :
                      /\ violations[k].resource_name = r.address
                      /\ InSeq("' not found)", violations[k].message)

(***************************************************************************)
(* Claims about the shape of a path                                        *)
(***************************************************************************)
\* the path has one of the defects the validation is to refuse
HasControlChar(p) == \E i \in 1..Len(p) : p[i] \in KeyControlChars
Defective(p) ==
    \/ p = << >>
    \/ Len(p) > MAX_PROPERTY_PATH_LENGTH
    \/ Len(Split(p, ".")) > MAX_PROPERTY_DEPTH
    \/ \E i \in 1..Len(Split(p, ".")) : Split(p, ".")[i] = << >>
    \/ HasControlChar(p)

\* C11 as stated: a path that is empty, longer than 1000 characters, of more
\* than 20 segments, with an empty segment or with any control character
\* resolves to None in every root value; a 20-segment path without defect
\* is traversed.
C11_DefectivePathIsAbsent ==
    op = "resolve" =>
        /\ Defective(path) => result = None
        /\ \A n \in MAX_PROPERTY_DEPTH..(MAX_PROPERTY_DEPTH + ExtraDepth) :
              (obj = DeepDict(n) /\ path = Segments(MAX_PROPERTY_DEPTH))
                  => result = DeepDict(n - MAX_PROPERTY_DEPTH)

(***************************************************************************)
(* Claims about the totality of evaluation                                 *)
(***************************************************************************)
\* the property of the resource is absent, or the comparator of the rule
\* cannot use the operand or the pattern
Unusable(rule, r) ==
    LET actual == get_nested_property(r.values, Val(rule.property)) IN
    \/ IsNone(actual)
    \/ rule.greater_than # None /\ ~PyFloat(actual).ok
    \/ rule.regex_match # None /\ ~RegexCompiles(Val(rule.regex_match))
    \/ rule.has_keys # None /\ ~IsDict(actual)

\* C12 as stated: SimpleEvaluator.evaluate returns and never raises, and a
\* matching resource with an absent property, an operand that is no number
\* under a numeric comparator, a pattern that does not compile or a value
\* that is no map under has_keys gets a violation, whatever the other
\* resources.
C12_EvaluationIsTotal ==
    (op = "simple" /\ rules[1].property # None) =>
        /\ raised = "none"
        /\ \A r \in ResourceSet :
              (TypeMatches(rules[1], r) /\ Unusable(rules[1], r)) =>
                  \E k \in 1..Len(violations) :
                      violations[k].resource_name = r.address

(***************************************************************************)
(* Claims about rule construction                                          *)
(***************************************************************************)
Constructed == op = "construct" /\ raised = "none"
Rejected == op = "construct" /\ raised = "ValidationError"
Forbidden == TheRule.resource_forbidden = PyBool(TRUE)
\* the operators, of the ten, that the rule carries
Carried == {i \in 1..10 : <<TheRule.equals, TheRule.greater_than,
                           TheRule.greater_than_or_equal, TheRule.less_than,
                           TheRule.less_than_or_equal, TheRule.contains,
                           TheRule.in_list, TheRule.regex_match,
                           TheRule.has_keys, TheRule.is_not_empty>>[i] # None}

\* C13: every constructed rule with resource_forbidden=true has no property,
\* none of the ten operators and no requires_resources.
C13_ForbiddenRuleIsBare ==
    (Constructed /\ Forbidden) =>
        /\ TheRule.property = None
        /\ Carried = {}
        /\ TheRule.requires_resources = None

HasRequires ==
    TheRule.requires_resources # None /\ Len(Val(TheRule.requires_resources)) > 0

\* C14: a constructed rule without resource_forbidden=true has a property and
\* exactly one operator, or no property, a non-empty requires_resources and no
\* operator; a property with no operator or with several, a property-less
\* rule with requires_resources and an operator, and a rule with neither
\* property nor requires_resources are all rejected.
C14_PropertyOrCrossMode ==
    (op = "construct" /\ ~Forbidden) =>
        /\ Constructed =>
              \/ TheRule.property # None /\ Cardinality(Carried) = 1
              \/ TheRule.property = None /\ HasRequires /\ Carried = {}
        /\ (TheRule.property # None /\ Cardinality(Carried) # 1) => Rejected
        /\ (TheRule.property = None /\ HasRequires /\ Carried # {}) => Rejected
        /\ (TheRule.property = None /\ ~HasRequires) => Rejected
C14_Witness ==
    Constructed /\ ~Forbidden /\ TheRule.property # None /\ Carried = {10}

SetTypes == Val(TheRule.resource_types)
\* C15: a constructed rule has exactly one of resource_type and
\* resource_types, and a set resource_types is non-empty without duplicates;
\* both, neither, an empty list and a repeated entry are rejected.
C15_OneTypeSelector ==
    op = "construct" =>
        /\ Constructed =>
              /\ (TheRule.resource_type # None) # (TheRule.resource_types # None)
              /\ TheRule.resource_types # None =>
                    /\ Len(SetTypes) > 0
                    /\ \A i, j \in 1..Len(SetTypes) :
                          SetTypes[i] = SetTypes[j] => i = j
        /\ (TheRule.resource_type # None /\ TheRule.resource_types # None) => Rejected
        /\ (TheRule.resource_type = None /\ TheRule.resource_types = None) => Rejected
        /\ (TheRule.resource_types # None /\ Len(SetTypes) = 0) => Rejected
        /\ (TheRule.resource_types # None /\
              \E i, j \in 1..Len(SetTypes) : i # j /\ SetTypes[i] = SetTypes[j])
             => Rejected
C15_Witness ==
    Constructed /\ TheRule.resource_types # None /\ Len(SetTypes) = 2

TheRequired == Val(TheRule.requires_resources)[1]
\* the other arguments of the RequiredResource are valid
ReferenceGiven ==
    TheRequired.relationship # "same_name_suffix"
        => TheRequired.reference_property # None
CountsInRange(least) ==
    /\ TheRequired.min_count >= 0
    /\ TheRequired.max_count # None =>
          /\ Val(TheRequired.max_count) >= TheRequired.min_count
          /\ Val(TheRequired.max_count) >= least

\* C16, as stated: every min_count >= 0 with an absent max_count or a
\* max_count >= min_count is accepted; a max_count < min_count and a negative
\* min_count are rejected.
C16_CountRange ==
    op = "construct" =>
        /\ (CountsInRange(TheRequired.min_count) /\ ReferenceGiven) => Constructed
        /\ ~CountsInRange(TheRequired.min_count) => Rejected
\* C16, amended: every min_count >= 0 with an absent max_count or a
\* max_count >= max(min_count, 1) is accepted; a max_count < min_count, a
\* max_count < 1 and a negative min_count are rejected.
C16_CountRangeFromOne ==
    op = "construct" =>
        /\ (CountsInRange(1) /\ ReferenceGiven) => Constructed
        /\ ~CountsInRange(1) => Rejected
C16_Witness ==
    /\ Constructed
    /\ TheRequired.min_count = MaxCount
    /\ TheRequired.max_count = PyInt(MaxCount)

(***************************************************************************)
(* Claims about a check run and the rules loader                           *)
(***************************************************************************)
LoadFails ==
    \/ load_rules(rule_files).raised # "none"
    \/ load_terraform_plan(plan_data).raised # "none"
HasSeverity(severity) ==
    \E i \in 1..Len(violations) : violations[i].severity = severity

\* C17: the exit code of a check run is 2 exactly when loading or validating
\* the rules or the plan fails; otherwise 1 exactly when there is an error
\* violation, or strict mode is on and there is a warning violation;
\* otherwise 0.
C17_ExitCode ==
    op = "run" =>
        /\ Val(result) \in {0, 1, 2}
        /\ Val(result) = 2 <=> LoadFails
        /\ ~LoadFails =>
              (Val(result) = 1 <=>
                  (HasSeverity("error") \/ (strict /\ HasSeverity("warning"))))

Malformed(file) == file.state # "ok" \/ ~RuleAccepted(file.data)
MalformedFiles == {i \in 1..Len(rule_files) : Malformed(rule_files[i])}
Message == Val(result)
\* the message has a line that starts with the name of the file
ListsFile(file) ==
    \E k \in 1..(Len(Message) - 2) :
        /\ Message[k] = "\n"
        /\ Message[k + 1] = file.name[1]
        /\ Message[k + 2] \in {": Security validation failed - ", ": Invalid JSON - ",
                               ": Validation failed - ", ": Unexpected error - "}

\* C18: when a file under the directory is malformed, load_rules raises one
\* RuleLoadError whose message lists every failing file, one line each, and
\* returns no rules; when it returns, every file loaded, and the rules are
\* those of the files, sorted by id.
C18_FailClosed ==
    op = "load" =>
        /\ MalformedFiles # {} =>
              /\ raised = "RuleLoadError"
              /\ rules = << >>
              /\ \A i \in MalformedFiles : ListsFile(rule_files[i])
              /\ Cardinality({k \in 1..Len(Message) : Message[k] = "\n"})
                    = Cardinality(MalformedFiles)
        /\ raised = "none" =>
              /\ MalformedFiles = {}
              /\ Len(rules) = Len(rule_files)
              /\ \A i \in 1..Len(rule_files) :
                    \E j \in 1..Len(rules) : rules[j] = rule_files[i].data
              /\ \A i, j \in 1..Len(rules) :
                    i < j => ~StrLess(rules[j].id, rules[i].id)
C18_Witness ==
    /\ op = "load"
    /\ raised = "RuleLoadError"
    /\ Len(rule_files) = 2
    /\ Cardinality(MalformedFiles) = 1

(***************************************************************************)
(* Claims about the order of rules and about repeated calls                *)
(***************************************************************************)
Orderings(seq) ==
    {[i \in 1..Len(seq) |-> seq[f[i]]] :
        f \in {g \in [1..Len(seq) -> 1..Len(seq)] :
                  \A a, b \in 1..Len(seq) : g[a] = g[b] => a = b}}
Occurrences(v, seq) == Cardinality({k \in 1..Len(seq) : seq[k] = v})
SameMultiset(a, b) ==
    /\ Len(a) = Len(b)
    /\ \A v \in SeqToSet(a) \cup SeqToSet(b) : Occurrences(v, a) = Occurrences(v, b)
\* how often v is among the violations of the rules, each evaluated alone
RECURSIVE OccurrencesAlone(_, _)
OccurrencesAlone(v, rs) ==
    IF rs = << >> THEN 0
    ELSE Occurrences(v, evaluate(Head(rs), resources)) + OccurrencesAlone(v, Tail(rs))

\* C19: evaluate_all over any permutation of the rules returns the same
\* multiset of violations, and every violation occurs as often as in the
\* results of the rules evaluated alone; a call that raises, raises under
\* every permutation.
C19_RuleOrderIsImmaterial ==
    op = "check" =>
        /\ \A perm \in Orderings(rules) :
              IF raised = "none"
              THEN /\ EvaluateAllRaises(perm, resources) = "none"
                   /\ SameMultiset(evaluate_all(perm, resources), violations)
              ELSE EvaluateAllRaises(perm, resources) = raised
        /\ raised = "none" =>
              \A v \in SeqToSet(violations) :
                  Occurrences(v, violations) = OccurrencesAlone(v, rules)
C19_Witness ==
    /\ op = "check"
    /\ raised = "none"
    /\ Len(rules) = 2
    /\ evaluate(rules[1], resources) # << >>
    /\ evaluate(rules[2], resources) # << >>
    /\ evaluate_all(<<rules[2], rules[1]>>, resources) # violations

\* what a call on a fresh instance returns for the arguments of the state
FreshResult ==
    IF op = "cross" THEN cross_evaluate(TheRule, resources, plan_data)
    ELSE evaluate(TheRule, resources)
Returned == op \in {"simple", "cross"}
\* C20: whatever calls came before, a call returns the violation list a
\* fresh instance returns, in the same order; the maps of a cross-resource
\* call are those of the plan of that call; and a call leaves the rule, the
\* resources and the plan data as they were.
C20_NoStateBetweenCalls ==
    /\ [](Returned => violations = FreshResult)
    /\ []((op = "cross" /\ Truthy(TheRule.requires_resources)) =>
              (references = ReferenceMap /\ constants = ConstantMap))
    /\ [][Returned' => (rules' = rules /\ resources' = resources
                        /\ plan_data' = plan_data)]_vars
C20_Witness ==
    /\ op = "cross"
    /\ calls = MaxCalls
    /\ TheRule.requires_resources # None
    /\ TheRequired.relationship = "referenced_by_primary"
    /\ ~Truthy(plan_data)
    /\ violations # << >>

(***************************************************************************)
(* Inputs of the equals specification: one resource b.x whose property p   *)
(* holds the actual value, one rule whose equals holds the expected value  *)
(***************************************************************************)
EqualsValues ==
    { PyBool(TRUE), PyBool(FALSE), PyInt(0), PyInt(1), PyInt(2),
      PyStr(<<"t", "r", "u", "e">>), PyStr(<<"T", "R", "U", "E">>),
      PyStr(<<"Y", "e", "s">>), PyStr(<<"n", "o">>), PyStr(<<"F", "a", "l", "s", "e">>),
      PyStr(<<"0">>), PyStr(<<"1">>), PyStr(<<"1", ".", "0">>), PyStr(<<"0", "1">>),
      PyStr(<<"0", ".", "0">>), PyStr(<<"2">>), PyStr(<<"2", ".", "5">>),
      PyStr(StrA), PyStr(<< >>) }

InitEquals ==
    /\ op = "init"
    /\ rules \in {<<[PropertyRule(TypeB) EXCEPT !.equals = expected]>> :
                     expected \in EqualsValues}
    /\ resources \in {<<Resource(TypeB, NameX, PyDict(<< <<KeyP, actual>> >>))>> :
                         actual \in EqualsValues}
    /\ plan_data = None
    /\ obj = None
    /\ path = << >>
    /\ violations = << >>
    /\ result = None
    /\ raised = "none"
    /\ rule_files = << >>
    /\ strict = FALSE
    /\ references = << >>
    /\ constants = << >>
    /\ calls = 1

EqualsSpec == InitEquals /\ [][NextSimple]_vars

(***************************************************************************)
(* Claims about the equals comparator                                      *)
(***************************************************************************)
Actual == DictGet(resources[1].values, KeyP)
Expected == TheRule.equals
\* the word is one of the spellings of the boolean, in any letter case
SpellsBool(word, bool) ==
    /\ IsBool(bool) /\ IsStr(word)
    /\ IF Val(bool) THEN Lower(Val(word)) \in {<<"t", "r", "u", "e">>, <<"y", "e", "s">>, <<"1">>}
       ELSE Lower(Val(word)) \in {<<"f", "a", "l", "s", "e">>, <<"n", "o">>, <<"0">>}
\* the text parses to the float of the number, a number being an int and not
\* a boolean
ParsesTo(text, number) ==
    /\ Tag(number) = "int" /\ IsStr(text)
    /\ PyFloat(text).ok
    /\ FloatCmp(PyFloat(text), PyFloat(number)) = 0

\* C21: the equals comparator passes exactly when the two values are equal,
\* or one is a boolean and the other a string spelling it, or one is a number
\* and the other a string that parses to the same float; otherwise the
\* resource gets a violation. A string satisfies an expected true only when
\* it is "true", "yes" or "1" in some letter case.
C21_EqualsCoercion ==
    (op = "simple" /\ Expected # None) =>
        /\ violations = << >> <=>
              \/ PyEq(Actual, Expected)
              \/ SpellsBool(Actual, Expected) \/ SpellsBool(Expected, Actual)
              \/ ParsesTo(Actual, Expected) \/ ParsesTo(Expected, Actual)
        /\ (violations = << >> /\ IsStr(Actual) /\ Expected = PyBool(TRUE))
              => Lower(Val(Actual)) \in {<<"t", "r", "u", "e">>, <<"y", "e", "s">>, <<"1">>}

(***************************************************************************)
(* Inputs of the plan loader specification: plans whose resource_changes   *)
(* hold at most MaxChanges entries with pairwise distinct addresses        *)
(***************************************************************************)
MaxChanges == 2

ActionLists ==
    { << >>, <<PyStr(<<"delete">>)>>, <<PyStr(<<"no-op">>)>>, <<PyStr(<<"create">>)>>,
      <<PyStr(<<"update">>)>>, <<PyStr(<<"delete">>), PyStr(<<"create">>)>>,
      <<PyStr(<<"read">>)>> }

\* <<address, type, name>>
ChangeTargets == { <<AddrBX, TypeB, NameX>>, <<AddrBY, TypeB, NameY>>, <<AddrVX, TypeV, NameX>> }

\* entries with a change object (every action list with an "after", the
\* single actions with a "before" alone, a create with neither), then an
\* entry whose change is null and one without a change
ChangeEntries ==
    { Change(t[1], t[2], t[3], actions, Values(PyBool(TRUE)), None) :
        t \in ChangeTargets, actions \in ActionLists }
    \cup { Change(t[1], t[2], t[3], actions, None, Values(PyBool(FALSE))) :
              t \in ChangeTargets,
              actions \in {a \in ActionLists : Len(a) = 1} }
    \cup { Change(t[1], t[2], t[3], <<PyStr(<<"create">>)>>, None, None) :
              t \in ChangeTargets }
    \cup { PyDict(<< <<<<"address">>, PyStr(AddrVX)>>, <<<<"type">>, PyStr(TypeV)>>,
                     <<<<"name">>, PyStr(NameX)>>, <<<<"change">>, None>> >>),
           PyDict(<< <<<<"address">>, PyStr(AddrBY)>>, <<<<"type">>, PyStr(TypeB)>>,
                     <<<<"name">>, PyStr(NameY)>> >>) }

AddressOf(entry) == Val(DictGet(entry, <<"address">>))

RECURSIVE ChangeLists(_)
ChangeLists(n) ==
    IF n = 0 THEN {<< >>}
    ELSE ChangeLists(n - 1)
         \cup UNION {{Append(l, e) :
                         e \in {c \in ChangeEntries :
                                   \A i \in 1..Len(l) : AddressOf(l[i]) # AddressOf(c)}} :
                     l \in {m \in ChangeLists(n - 1) : Len(m) = n - 1}}

InitPlan ==
    /\ op = "init"
    /\ rules = << >>
    /\ resources = << >>
    /\ plan_data \in {PlanOf(PyList(l)) : l \in ChangeLists(MaxChanges)}
    /\ obj = None
    /\ path = << >>
    /\ violations = << >>
    /\ result = None
    /\ raised = "none"
    /\ rule_files = << >>
    /\ strict = FALSE
    /\ references = << >>
    /\ constants = << >>
    /\ calls = 1

\* a call load_terraform_plan(plan_path)
LoadPlan ==
    /\ op = "init"
    /\ op' = "plan"
    /\ resources' = load_terraform_plan(plan_data).resources
    /\ raised' = load_terraform_plan(plan_data).raised
    /\ UNCHANGED <<rules, plan_data, obj, path, violations, result, rule_files, strict,
                   references, constants, calls>>

NextPlan == LoadPlan

PlanSpec == InitPlan /\ [][NextPlan]_vars

(***************************************************************************)
(* Claims about the plan loader                                            *)
(***************************************************************************)
PlanChanges == Val(DictGet(plan_data, <<"resource_changes">>))
\* the action list of an entry, empty when the entry has none
ActionsOf(entry) ==
    IF DictHas(entry, <<"change">>) /\ IsDict(DictGet(entry, <<"change">>))
    THEN Val(DictGet(DictGet(entry, <<"change">>), <<"actions">>))
    ELSE << >>
Created == <<PyStr(<<"create">>)>>
Updated == <<PyStr(<<"update">>)>>
Replaced == <<PyStr(<<"delete">>), PyStr(<<"create">>)>>
Deleted == <<PyStr(<<"delete">>)>>
Unchanged == <<PyStr(<<"no-op">>)>>
\* the positions of the loaded resources that carry the address of an entry
LoadedAt(entry) == {k \in 1..Len(resources) : resources[k].address = AddressOf(entry)}

\* C22: the loader returns, in the order of resource_changes, one normalized
\* resource for every change that is created, updated or replaced, and none
\* for a change whose action list is empty, [delete] or [no-op].
C22_LoadsLiveChanges ==
    op = "plan" =>
        /\ raised = "none"
        /\ \A i \in 1..Len(PlanChanges) :
              LET entry == PlanChanges[i] IN
              /\ ActionsOf(entry) \in {Created, Updated, Replaced} =>
                    /\ Cardinality(LoadedAt(entry)) = 1
                    /\ \A k \in LoadedAt(entry) :
                          /\ resources[k].type = Val(DictGet(entry, <<"type">>))
                          /\ resources[k].name = Val(DictGet(entry, <<"name">>))
                          /\ DictGet(DictGet(entry, <<"change">>), <<"after">>) # None =>
                                resources[k].values =
                                    DictGet(DictGet(entry, <<"change">>), <<"after">>)
              /\ ActionsOf(entry) \in {<< >>, Deleted, Unchanged} => LoadedAt(entry) = {}
        /\ \A i, j \in 1..Len(PlanChanges) :
              (i < j /\ LoadedAt(PlanChanges[i]) # {} /\ LoadedAt(PlanChanges[j]) # {}) =>
                  \A k \in LoadedAt(PlanChanges[i]), m \in LoadedAt(PlanChanges[j]) : k < m
C22_Witness ==
    /\ op = "plan"
    /\ Len(PlanChanges) = 2
    /\ ActionsOf(PlanChanges[1]) = Unchanged
    /\ ActionsOf(PlanChanges[2]) = Replaced
    /\ Len(resources) = 1

(***************************************************************************)
(* Inputs of the map specification: plans whose configuration holds v.x    *)
(* and v.y with references and constants at the top level of expressions,  *)
(* in nested expression objects and in list-valued entries                 *)
(***************************************************************************)
MaxNesting == 2

KeyBlock == <<"block">>
ReferencesOf(refs) == PyDict(<< <<<<"references">>, PyList(refs)>> >>)
ConstantValue(v) == PyDict(<< <<<<"constant_value">>, v>> >>)
ModuleBX == ModuleWord \o <<".", "m", ".">> \o AddrBX

\* expression objects: references to b.x twice, to b.x and b.y, into a
\* module with an attribute and without a resource name, of one segment, an
\* empty one and one that is no string; constants
ExpressionLeaves ==
    { ReferencesOf(<<PyStr(AddrBX \o <<".", "i", "d">>), PyStr(AddrBX)>>),
      ReferencesOf(<<PyStr(AddrBX \o <<".", "i", "d">>), PyStr(AddrBY \o <<".", "a", "r", "n">>),
                     PyStr(AddrBX \o <<".", "a", "r", "n">>)>>),
      ReferencesOf(<<PyStr(ModuleBX \o <<".", "i", "d">>)>>),
      ReferencesOf(<<PyStr(ModuleWord \o <<".", "m", ".", "b">>)>>),
      ReferencesOf(<<PyStr(<<"s", "e", "l", "f">>), PyStr(<< >>), PyInt(1)>>),
      ConstantValue(PyStr(StrK)),
      ConstantValue(PyStr(<< >>)) }

\* {"block": {"block": ... entry}} with n levels
RECURSIVE Nested(_, _)
Nested(entry, n) ==
    IF n = 0 THEN entry ELSE PyDict(<< <<KeyBlock, Nested(entry, n - 1)>> >>)

\* the expressions of a configured resource: none, a leaf under "bucket", the
\* same inside nested objects, inside a list-valued entry, and inside a
\* list-valued entry of a nested object
MapExpressions ==
    {PyDict(<< >>)}
    \cup {Nested(PyDict(<< <<KeyBucket, leaf>> >>), n) :
             leaf \in ExpressionLeaves, n \in 0..MaxNesting}
    \cup {Nested(PyDict(<< <<KeyBlock, PyList(<<PyDict(<< <<KeyBucket, leaf>> >>)>>)>> >>), n) :
             leaf \in ExpressionLeaves, n \in 0..1}

MapPlans ==
    {Plan(<<ConfigResource(AddrVX, ex), ConfigResource(AddrVY, ey)>>) :
        ex \in MapExpressions,
        ey \in {PyDict(<< >>),
                PyDict(<< <<KeyBucket, ReferencesOf(<<PyStr(AddrBX)>>)>> >>),
                PyDict(<< <<KeyT, ConstantValue(PyStr(StrZ))>> >>)}}

InitMap ==
    /\ op = "init"
    /\ rules = << >>
    /\ resources = << >>
    /\ plan_data \in MapPlans
    /\ obj = None
    /\ path = << >>
    /\ violations = << >>
    /\ result = None
    /\ raised = "none"
    /\ rule_files = << >>
    /\ strict = FALSE
    /\ references = << >>
    /\ constants = << >>
    /\ calls = 1

\* a call extract_resource_references(plan_data)
ExtractReferences ==
    /\ op = "init"
    /\ op' = "references"
    /\ references' = extract_resource_references(plan_data)
    /\ UNCHANGED <<rules, resources, plan_data, obj, path, violations, result, raised,
                   rule_files, strict, constants, calls>>

\* a call extract_constant_values(plan_data)
ExtractConstants ==
    /\ op = "init"
    /\ op' = "constants"
    /\ constants' = extract_constant_values(plan_data)
    /\ UNCHANGED <<rules, resources, plan_data, obj, path, violations, result, raised,
                   rule_files, strict, references, calls>>

NextMap == ExtractReferences \/ ExtractConstants

MapSpec == InitMap /\ [][NextMap]_vars

(***************************************************************************)
(* Claims about the reference map and the constant map                     *)
(***************************************************************************)
Configured == ConfigResources(plan_data)
Items(d) == {Val(d)[i] : i \in 1..Len(Val(d))}
Elements(l) == {Val(l)[i] : i \in 1..Len(Val(l))}

\* the strings of the "references" lists of the expression objects under a
\* value: at its top level, in nested objects, in the entries of its lists
RECURSIVE FoundReferences(_)
FoundReferences(value) ==
    IF IsDict(value)
    THEN UNION {(IF /\ IsDict(item[2]) /\ DictHas(item[2], <<"references">>)
                    /\ IsList(DictGet(item[2], <<"references">>))
                 THEN {r \in Elements(DictGet(item[2], <<"references">>)) : IsStr(r)}
                 ELSE {}) \cup FoundReferences(item[2]) : item \in Items(value)}
    ELSE IF IsList(value)
    THEN UNION {FoundReferences(e) : e \in {x \in Elements(value) : IsDict(x)}}
    ELSE {}

Segments2(reference) == Split(Val(reference), ".")
\* the first two segments, the first four under "module."
BaseAddress(reference) ==
    IF Segments2(reference)[1] = ModuleWord
    THEN Join(SubSeq(Segments2(reference), 1, Min(4, Len(Segments2(reference)))), ".")
    ELSE Join(SubSeq(Segments2(reference), 1, 2), ".")

\* C23: every reference string with a base address, found anywhere in the
\* expressions of a configured resource, gives an edge from its base address
\* to that resource, and no dependents list repeats an address.
C23_ReferenceEdges ==
    op = "references" =>
        /\ \A i \in 1..Len(Configured) :
              \A r \in FoundReferences(DictGet(Configured[i], <<"expressions">>)) :
                  Len(Segments2(r)) >= 2 =>
                      /\ MapHas(references, BaseAddress(r))
                      /\ InSeq(Val(DictGet(Configured[i], <<"address">>)),
                               MapGet(references, BaseAddress(r)))
        /\ \A k \in 1..Len(references) : NoDuplicates(references[k][2])
C23_Witness ==
    /\ op = "references"
    /\ MapHas(references, AddrBX)
    /\ MapGet(references, AddrBX) = <<AddrVX, AddrVY>>
    /\ MapHas(references, AddrBY)

\* the <<key, value>> pairs of the constant_value leaves under a value
RECURSIVE FoundConstants(_)
FoundConstants(value) ==
    IF IsDict(value)
    THEN UNION {(IF IsDict(item[2]) /\ DictHas(item[2], <<"constant_value">>)
                 THEN {<<item[1], DictGet(item[2], <<"constant_value">>)>>}
                 ELSE {}) \cup FoundConstants(item[2]) : item \in Items(value)}
    ELSE IF IsList(value)
    THEN UNION {FoundConstants(e) : e \in Elements(value)}
    ELSE {}

\* C24: every constant_value leaf of a configured resource, nested or in a
\* list-valued entry as well as at the top level, is recorded under the
\* address of the resource and the key of the leaf.
C24_ConstantsAtAnyDepth ==
    op = "constants" =>
        \A i \in 1..Len(Configured) :
            \A leaf \in FoundConstants(DictGet(Configured[i], <<"expressions">>)) :
                /\ MapHas(constants, Val(DictGet(Configured[i], <<"address">>)))
                /\ DictGet(MapGet(constants, Val(DictGet(Configured[i], <<"address">>))),
                           leaf[1]) = leaf[2]

(***************************************************************************)
(* Inputs of the violation specification: rules of both evaluators with    *)
(* their own id, name and severity, specs with and without message_suffix  *)
(* and conditions, and a primary whose address holds a newline             *)
(***************************************************************************)
NameN == <<"\n", "x">>

ViolationResources ==
    {Resource(TypeB, n, PyDict(<< <<KeyP, PyBool(FALSE)>> >>)) : n \in {NameX, NameN}}
    \cup {Resource(TypeV, n, v) : n \in {NameX, NameN},
              v \in {PyDict(<< <<KeyS, PyBool(TRUE)>> >>), PyDict(<< <<KeyT, PyInt(1)>> >>)}}

SuffixBang == PyStr(<<"s", "e", "e", " ", "d", "o", "c", "s">>)
ViolationRequired ==
    { <<[BlankRequired EXCEPT !.resource_type = TypeV]>>,
      <<[BlankRequired EXCEPT !.resource_type = TypeV, !.message_suffix = SuffixBang]>>,
      <<[BlankRequired EXCEPT !.resource_type = TypeV,
                              !.conditions = PyDict(<< <<KeyS, PyBool(TRUE)>> >>)]>>,
      <<[BlankRequired EXCEPT !.resource_type = TypeV, !.message_suffix = SuffixBang,
                              !.conditions = PyDict(<< <<KeyS, PyBool(TRUE)>> >>)]>>,
      <<[BlankRequired EXCEPT !.resource_type = TypeB, !.min_count = 0,
                              !.max_count = PyInt(1), !.message_suffix = SuffixBang,
                              !.relationship = "referenced_by_primary",
                              !.reference_property = PyStr(KeyBucket)]>>,
      <<[BlankRequired EXCEPT !.resource_type = TypeV, !.message_suffix = SuffixBang],
        [BlankRequired EXCEPT !.resource_type = TypeB, !.min_count = 2]>> }

ViolationRules ==
    {[rule EXCEPT !.id = id_name[1], !.name = id_name[2], !.severity = severity] :
        rule \in {CrossRule(reqs) : reqs \in ViolationRequired}
                 \cup { [PropertyRule(TypeB) EXCEPT !.equals = PyBool(TRUE)],
                        [PropertyRule(TypeV) EXCEPT !.is_not_empty = PyBool(TRUE)],
                        [BlankRule EXCEPT !.resource_type = PyStr(TypeB),
                                          !.resource_forbidden = PyBool(TRUE)] },
        id_name \in {<<<<"r">>, <<"R">>>>, <<<<"q">>, <<"Q", " ", "2">>>>},
        severity \in {"error", "warning"}}

InitViolation ==
    /\ op = "init"
    /\ rules \in {<<r>> : r \in ViolationRules}
    /\ resources \in ResourceLists(ViolationResources, MaxCrossResources)
    /\ plan_data = None
    /\ obj = None
    /\ path = << >>
    /\ violations = << >>
    /\ result = None
    /\ raised = "none"
    /\ rule_files = << >>
    /\ strict = FALSE
    /\ references = << >>
    /\ constants = << >>
    /\ calls = 1

NextViolation == SimpleEvaluate \/ CrossEvaluate

ViolationSpec == InitViolation /\ [][NextViolation]_vars

(***************************************************************************)
(* Claims about the fields of a violation                                  *)
(***************************************************************************)
CarriesRule(v) ==
    /\ v.rule_id = TheRule.id
    /\ v.rule_name = TheRule.name
    /\ v.severity = TheRule.severity

StartsWith(text, prefix) ==
    Len(text) >= Len(prefix) /\ SubSeq(text, 1, Len(prefix)) = prefix
EndsWith(text, suffix) ==
    Len(text) >= Len(suffix)
    /\ SubSeq(text, Len(text) - Len(suffix) + 1, Len(text)) = suffix

\* the detail of a violation of the spec req: it opens as one of the three
\* details of that spec and closes as they do
IsDetailOf(detail, req) ==
    \/ /\ StartsWith(detail, <<"Missing required ">> \o req.resource_type \o <<" (found ">>)
       /\ EndsWith(detail, <<")">>)
    \/ /\ StartsWith(detail, <<"Too many ">> \o req.resource_type \o <<" (found ">>)
       /\ EndsWith(detail, <<")">>)
    \/ /\ Truthy(req.conditions)
       /\ \E r \in ResourceSet :
             /\ r.type = req.resource_type
             /\ StartsWith(detail, <<"Related resource ">> \o r.address
                                       \o <<" fails condition: ">>)
       /\ \E i \in 1..Len(Val(req.conditions)) :
             EndsWith(detail, <<", expected ">> \o PyRepr(Val(req.conditions)[i][2]))

\* message is the template with the placeholder replaced by shown, ": ", a
\* detail of req, and " " and the suffix of req when it has one
IsMessageOf(message, shown, req) ==
    LET prefix == Replace(TheRule.message, "{{resource_name}}", shown) \o <<": ">>
        suffix == IF Truthy(req.message_suffix)
                  THEN <<" ">> \o Val(req.message_suffix) ELSE << >>
    IN /\ StartsWith(message, prefix)
       /\ EndsWith(message, suffix)
       /\ Len(message) > Len(prefix) + Len(suffix)
       /\ IsDetailOf(SubSeq(message, Len(prefix) + 1, Len(message) - Len(suffix)), req)

AllViolations == {violations[i] : i \in 1..Len(violations)}

\* the rule fields on every violation of either evaluator, and the primary's
\* address and type on every violation of the cross-resource evaluator
CarriesRuleAndPrimary ==
    /\ op \in {"simple", "cross"} => \A v \in AllViolations : CarriesRule(v)
    /\ op = "cross" =>
          \A v \in AllViolations :
              \E primary \in PrimarySet :
                  /\ v.resource_name = primary.address
                  /\ v.resource_type = primary.type

\* C25 as stated: the placeholder of the template is replaced by the address
\* of the primary.
C25_MessageNamesPrimaryAddress ==
    /\ CarriesRuleAndPrimary
    /\ op = "cross" =>
          \A v \in AllViolations :
              \E primary \in PrimarySet :
                  /\ v.resource_name = primary.address
                  /\ \E k \in 1..Len(RequiredSpecs) :
                        IsMessageOf(v.message, primary.address, RequiredSpecs[k])

\* C25: every violation carries the id, name and severity of its rule; a
\* cross-resource violation names the primary's address and type, and its
\* message is the template with the placeholder replaced by the primary's
\* address as sanitize_for_output leaves it, then the detail, then the
\* spec's message_suffix when one is set.
C25_MessageNamesSanitizedAddress ==
    /\ CarriesRuleAndPrimary
    /\ op = "cross" =>
          \A v \in AllViolations :
              \E primary \in PrimarySet :
                  /\ v.resource_name = primary.address
                  /\ \E k \in 1..Len(RequiredSpecs) :
                        IsMessageOf(v.message,
                                    sanitize_for_output(primary.address, "terminal"),
                                    RequiredSpecs[k])
C25_Witness ==
    /\ IsCrossCall
    /\ TheRule.severity = "warning"
    /\ \E v \in AllViolations :
          /\ v.resource_name = Address(TypeB, NameN)
          /\ EndsWith(v.message, <<" ">> \o Val(SuffixBang))
          /\ \E r \in ResourceSet : IsConditionOn(v, r)

(***************************************************************************)
(* Inputs of the partition specification: forbidden rules, pure            *)
(* cross-resource rules and property rules, each given to both evaluators  *)
(***************************************************************************)
RequiresV == PyList(<<[BlankRequired EXCEPT !.resource_type = TypeV]>>)

PartitionRules ==
    { [BlankRule EXCEPT !.resource_type = PyStr(TypeB),
                        !.resource_forbidden = PyBool(TRUE)],
      [BlankRule EXCEPT !.resource_types = PyList(<<PyStr(TypeV), PyStr(TypeB)>>),
                        !.resource_forbidden = PyBool(TRUE)],
      [BlankRule EXCEPT !.resource_type = PyStr(TypeB),
                        !.requires_resources = RequiresV],
      [BlankRule EXCEPT !.resource_type = PyStr(TypeB),
                        !.resource_forbidden = PyBool(FALSE),
                        !.requires_resources = RequiresV],
      [PropertyRule(TypeB) EXCEPT !.equals = PyBool(TRUE)],
      [PropertyRule(TypeB) EXCEPT !.is_not_empty = PyBool(TRUE)],
      [PropertyRule(TypeB) EXCEPT !.equals = PyBool(TRUE),
                                  !.resource_forbidden = PyBool(FALSE),
                                  !.requires_resources = RequiresV] }

InitPartition ==
    /\ op = "init"
    /\ rules \in {<<r>> : r \in PartitionRules}
    /\ resources \in ResourceLists(SimpleResources, MaxResources)
    /\ plan_data = None
    /\ obj = None
    /\ path = << >>
    /\ violations = << >>
    /\ result = None
    /\ raised = "none"
    /\ rule_files = << >>
    /\ strict = FALSE
    /\ references = << >>
    /\ constants = << >>
    /\ calls = 1

NextPartition == SimpleEvaluate \/ CrossEvaluate

PartitionSpec == InitPartition /\ [][NextPartition]_vars

(***************************************************************************)
(* Claims about the division of rules between the evaluators               *)
(***************************************************************************)
IsForbidden == TheRule.resource_forbidden = PyBool(TRUE)

\* C26: SimpleEvaluator returns nothing for a rule without a property that
\* is not resource_forbidden; CrossResourceEvaluator returns nothing for a
\* rule without requires_resources; for a resource_forbidden rule
\* SimpleEvaluator returns exactly one violation for every resource of a
\* matching type, whatever its values, and none for the others.
C26_EvaluatorsPartitionRules ==
    /\ (op = "simple" /\ TheRule.property = None /\ ~IsForbidden) => violations = << >>
    /\ (op = "cross" /\ ~Truthy(TheRule.requires_resources)) => violations = << >>
    /\ (op = "simple" /\ IsForbidden) =>
          /\ raised = "none"
          /\ \A r \in ResourceSet :
                Cardinality({i \in 1..Len(violations) :
                                violations[i].resource_name = r.address})
                    = IF TypeMatches(TheRule, r) THEN 1 ELSE 0
          /\ Len(violations) = Cardinality(PrimarySet)
C26_Witness ==
    /\ op = "simple"
    /\ IsForbidden
    /\ Len(violations) = 2
    /\ resources[1].values # resources[2].values
    /\ resources[1].values = PyDict(<< >>)

(***************************************************************************)
(* Inputs of the output specification: every short text over colons, the   *)
(* pieces of an ANSI colour sequence, a newline and a tab                  *)
(***************************************************************************)
MaxTextLen == 4

OutputAlphabet == {":", "a", "ESC", "[", "1", "m", "\n", "\t"}

OutputTexts == StringsUpTo(OutputAlphabet, MaxTextLen)

InitOutput ==
    /\ op = "init"
    /\ rules = << >>
    /\ resources = << >>
    /\ plan_data = None
    /\ obj = None
    /\ path \in OutputTexts
    /\ violations = << >>
    /\ result = None
    /\ raised = "none"
    /\ rule_files = << >>
    /\ strict = FALSE
    /\ references = << >>
    /\ constants = << >>
    /\ calls = 1

\* a call sanitize_for_output(text, context="github")
SanitizeForGithub ==
    /\ op = "init"
    /\ op' = "sanitize"
    /\ result' = PyStr(sanitize_for_output(path, "github"))
    /\ UNCHANGED <<rules, resources, plan_data, obj, path, violations, raised, rule_files,
                   strict, references, constants, calls>>

NextOutput == SanitizeForGithub

OutputSpec == InitOutput /\ [][NextOutput]_vars

(***************************************************************************)
(* Claims about sanitize_for_output                                        *)
(***************************************************************************)
Sanitized == Val(result)
TruncationMarker == "... (truncated)"
MarkerLength == 15
\* the length in characters: every piece is one character but the marker
CharLength(text) ==
    Len(text) + (MarkerLength - 1) * Cardinality({i \in 1..Len(text) :
                                                     text[i] = TruncationMarker})

\* C27: the output for the github context holds no "::", no ANSI escape and
\* no control character other than tab, and is at most 10000 characters plus
\* the truncation marker long.
C27_GithubOutputIsSafe ==
    op = "sanitize" =>
        /\ \A i \in 1..(Len(Sanitized) - 1) :
              ~(Sanitized[i] = ":" /\ Sanitized[i + 1] = ":")
        /\ \A i \in 1..Len(Sanitized) : Sanitized[i] \notin OutputControlChars
        /\ CharLength(Sanitized) <= MAX_OUTPUT_LENGTH + MarkerLength

(***************************************************************************)
(* Inputs of the emptiness specification: rules whose comparator is the    *)
(* is_not_empty flag, true or false, constructed and then evaluated        *)
(***************************************************************************)
EmptinessValues ==
    { PyDict(<< >>),
      PyDict(<< <<KeyP, None>> >>),
      PyDict(<< <<KeyP, PyStr(<< >>)>> >>),
      PyDict(<< <<KeyP, PyList(<< >>)>> >>),
      PyDict(<< <<KeyP, PyDict(<< >>)>> >>),
      PyDict(<< <<KeyP, PyStr(StrA)>> >>),
      PyDict(<< <<KeyP, PyList(<<None>>)>> >>),
      PyDict(<< <<KeyP, PyDict(<< <<<<"k">>, None>> >>)>> >>),
      PyDict(<< <<KeyP, PyInt(0)>> >>),
      PyDict(<< <<KeyP, PyBool(FALSE)>> >>) }

EmptinessResources ==
    {Resource(TypeB, n, v) : n \in {NameX, NameY}, v \in EmptinessValues}
    \cup {Resource(TypeV, NameX, PyDict(<< >>))}

\* the flag alone, with another operator, and no operator at all
EmptinessArguments ==
    { [PropertyRule(TypeB) EXCEPT !.is_not_empty = PyBool(TRUE)],
      [PropertyRule(TypeB) EXCEPT !.is_not_empty = PyBool(FALSE)],
      [PropertyRule(TypeB) EXCEPT !.is_not_empty = PyBool(FALSE), !.severity = "warning"],
      [PropertyRule(TypeB) EXCEPT !.is_not_empty = PyBool(FALSE),
                                  !.equals = PyStr(StrA)],
      PropertyRule(TypeB) }

InitEmptiness ==
    /\ op = "init"
    /\ rules \in {<<r>> : r \in EmptinessArguments}
    /\ resources \in ResourceLists(EmptinessResources, MaxResources)
    /\ plan_data = None
    /\ obj = None
    /\ path = << >>
    /\ violations = << >>
    /\ result = None
    /\ raised = "none"
    /\ rule_files = << >>
    /\ strict = FALSE
    /\ references = << >>
    /\ constants = << >>
    /\ calls = 1

\* SimpleEvaluator().evaluate(rule, resources) with the rule just constructed
EvaluateConstructed ==
    /\ op = "construct"
    /\ raised = "none"
    /\ op' = "simple"
    /\ raised' = EvaluateRaises(rules[1], resources)
    /\ violations' = IF raised' = "none" THEN evaluate(rules[1], resources) ELSE << >>
    /\ UNCHANGED <<rules, resources, plan_data, obj, path, result, rule_files, strict,
                   references, constants, calls>>

NextEmptiness == Construct \/ EvaluateConstructed

EmptinessSpec == InitEmptiness /\ [][NextEmptiness]_vars

(***************************************************************************)
(* Claims about the is_not_empty flag                                      *)
(***************************************************************************)
\* the rule has a property and is_not_empty as its only comparator
OnlyIsNotEmpty ==
    /\ TheRule.property # None
    /\ TheRule.is_not_empty # None
    /\ ~AnySet(ForbiddenBranchOperators(TheRule))
    /\ TheRule.has_keys = None

\* the property of r is absent, null, or an empty string, sequence or map
IsEmptyAt(r) ==
    \/ ~DictHas(r.values, Val(TheRule.property))
    \/ DictGet(r.values, Val(TheRule.property))
           \in {None, PyStr(<< >>), PyList(<< >>), PyDict(<< >>)}

\* C28: a rule with a property and is_not_empty, true or false, as its only
\* comparator is accepted, and a resource of the rule's type gets a
\* violation exactly when the property is absent, null or empty; the rule
\* with the other value of the flag yields the same violations.
C28_FlagValueIsImmaterial ==
    OnlyIsNotEmpty =>
        /\ op = "construct" => raised = "none"
        /\ op = "simple" =>
              /\ raised = "none"
              /\ \A i \in 1..Len(resources) :
                    (\E k \in 1..Len(violations) :
                        violations[k].resource_name = resources[i].address)
                    <=> (TypeMatches(TheRule, resources[i]) /\ IsEmptyAt(resources[i]))
              /\ violations = evaluate([TheRule EXCEPT !.is_not_empty =
                                           PyBool(TheRule.is_not_empty = PyBool(FALSE))],
                                       resources)
C28_Witness ==
    /\ op = "simple"
    /\ OnlyIsNotEmpty
    /\ TheRule.is_not_empty = PyBool(FALSE)
    /\ Len(resources) = 2
    /\ Len(violations) = 1
    /\ violations[1].resource_name = resources[2].address
    /\ resources[1].values = PyDict(<< <<KeyP, PyBool(FALSE)>> >>)
    /\ resources[2].values = PyDict(<< <<KeyP, PyStr(<< >>)>> >>)

(***************************************************************************)
(* Inputs of the self-relation specification: same_name_suffix specs whose *)
(* target type is the type of the primary, and resources with and without  *)
(* a name                                                                  *)
(***************************************************************************)
NameEmpty == << >>

SelfResources ==
    {Resource(TypeB, n, v) :
        n \in {NameX, NameY, NameEmpty},
        v \in {PyDict(<< >>), PyDict(<< <<KeyS, PyBool(TRUE)>> >>),
               PyDict(<< <<KeyS, PyBool(FALSE)>> >>)}}
    \cup {Resource(TypeV, NameX, PyDict(<< <<KeyS, PyBool(TRUE)>> >>))}

SelfRequired ==
    {[BlankRequired EXCEPT !.resource_type = TypeB,
                           !.min_count = lo,
                           !.max_count = hi,
                           !.conditions = cond] :
        lo \in 0..MaxCount,
        hi \in {None, PyInt(MaxCount)},
        cond \in {None, PyDict(<< <<KeyS, PyBool(TRUE)>> >>)}}

\* a rule per spec, and a rule over both types whose spec targets one of them
SelfRules ==
    {CrossRule(<<q>>) : q \in SelfRequired}
    \cup {[CrossRule(<<[BlankRequired EXCEPT !.resource_type = TypeB]>>)
              EXCEPT !.resource_type = None,
                     !.resource_types = PyList(<<PyStr(TypeB), PyStr(TypeV)>>)]}

InitSelf ==
    /\ op = "init"
    /\ rules \in {<<r>> : r \in SelfRules}
    /\ resources \in ResourceLists(SelfResources, MaxCrossResources)
    /\ plan_data = None
    /\ obj = None
    /\ path = << >>
    /\ violations = << >>
    /\ result = None
    /\ raised = "none"
    /\ rule_files = << >>
    /\ strict = FALSE
    /\ references = << >>
    /\ constants = << >>
    /\ calls = 1

SelfSpec == InitSelf /\ [][NextCross]_vars

(***************************************************************************)
(* Claims about a spec that targets the primary's own type                 *)
(***************************************************************************)
ViolationsOn(primary) ==
    {k \in 1..Len(violations) : violations[k].resource_name = primary.address}

\* primary, the only resource of its type and name, is related to itself
\* under req: no 'Missing required' violation, and one condition violation
\* on primary about itself per condition its own values do not meet
SelfRelated(primary, req) ==
    /\ \A k \in ViolationsOn(primary) : ~IsMissingOf(violations[k], req)
    /\ Cardinality({k \in ViolationsOn(primary) : IsConditionOn(violations[k], primary)})
           = Cardinality(Mismatches(<<primary>>, req))

\* the specs of the rule that name the type of primary under same_name_suffix
\* and ask for at most one related resource
SelfSpecs(primary) ==
    {k \in 1..Len(RequiredSpecs) :
        /\ RequiredSpecs[k].relationship = "same_name_suffix"
        /\ RequiredSpecs[k].resource_type = primary.type
        /\ RequiredSpecs[k].min_count <= 1}

NoConfigurationPlans ==
    { None,
      PyDict(<< >>),
      PyDict(<< <<<<"resource_changes">>, PyList(<< >>)>> >>) }

PlanlessPlans ==
    NoConfigurationPlans
    \cup { Plan(<<ConfigResource(AddrVX, ReferenceTo(KeyBucket, AddrBX)),
                  ConfigResource(AddrBX, ReferenceTo(KeyT, AddrVX))>>) }

PlanlessRequired ==
    {[BlankRequired EXCEPT !.resource_type = TypeV,
                           !.relationship = rel,
                           !.reference_property = PyStr(KeyBucket),
                           !.min_count = lo,
                           !.max_count = hi,
                           !.conditions = cond] :
        rel \in {"referenced_by_primary", "references_primary"},
        lo \in 0..MaxCount,
        hi \in {None, PyInt(MaxCount)},
        cond \in {None, PyDict(<< <<KeyS, PyBool(TRUE)>> >>)}}

\* a rule per spec, and a rule with one spec of each relationship
PlanlessRules ==
    {CrossRule(<<q>>) : q \in PlanlessRequired}
    \cup {CrossRule(<<[BlankRequired EXCEPT !.resource_type = TypeV,
                                           !.relationship = "referenced_by_primary",
                                           !.reference_property = PyStr(KeyBucket)],
                      [BlankRequired EXCEPT !.resource_type = TypeB,
                                           !.relationship = "references_primary",
                                           !.reference_property = PyStr(KeyT),
                                           !.min_count = 0]>>)}

InitPlanless ==
    /\ op = "init"
    /\ rules \in {<<r>> : r \in PlanlessRules}
    /\ resources \in RelateResourceLists
    /\ plan_data \in PlanlessPlans
    /\ obj = None
    /\ path = << >>
    /\ violations = << >>
    /\ result = None
    /\ raised = "none"
    /\ rule_files = << >>
    /\ strict = FALSE
    /\ references = << >>
    /\ constants = << >>
    /\ calls = 1

PlanlessSpec == InitPlanless /\ [][NextCross]_vars

(***************************************************************************)
(* Claims about an evaluation without plan data                            *)
(***************************************************************************)
WithoutConfiguration == plan_data \in NoConfigurationPlans
IsReferenceSpec(req) ==
    req.relationship \in {"referenced_by_primary", "references_primary"}
FoundNone(v) == FollowedBy(v.message, " (found ", <<"0">>, ", need ")

====
